---- MODULE Spec2Model ----
(***************************************************************************)
(* Model of the streaming tool-calling orchestration of src/app/chat.py:   *)
(* call_openai_streaming, handle_openai_streaming_response,                *)
(* call_supabase_edge, save_message, get_history, update_chat_title and    *)
(* enhance_response_formatting.                                            *)
(*                                                                         *)
(* Texts are sequences of lexical tokens ("a", " ", "\n", "#", "[debug]",  *)
(* ...): a token stands for one or more characters that the code never     *)
(* splits in the inputs enumerated here.                                   *)
(***************************************************************************)
EXTENDS Integers, Sequences, FiniteSets, TLC

VARIABLES
    pc,                  \* position of the request inside the two generators;
                         \* "done": the generator returned, "raised": an exception left it,
                         \* "closed": the generator was closed at a yield
    store,               \* chat_messages rows of the session, in created_at order
    title,               \* chat_sessions.title of the session
    history,             \* call_openai_streaming: history
    messages,            \* openai_messages / messages (the same list object)
    events,              \* events yielded to the route so far
    ops,                 \* external calls made so far, in program order
    accumulated_content, \* handle_openai_streaming_response: accumulated_content
    tool_calls,          \* handle_openai_streaming_response: tool_calls
    final_content,       \* handle_openai_streaming_response: final_content
    loop_i,              \* number of tool calls already handled by the for loop
    nchunks,             \* chunks consumed from the stream being read
    accRef,              \* accumulator fed in index order, unsplit arguments
    accAlt,              \* accumulator fed out of order, split arguments
    accIn,               \* the two complete calls being fed, and what is left to feed
    gw,                  \* a call of call_supabase_edge: its inputs, then its result
    pure,                \* an evaluation of a function on one input: the input, then the results
    reqs,                \* two concurrent requests: the locals of each generator
    db                   \* two concurrent requests: chat_messages and chat_sessions

flowVars == <<pc, store, title, history, messages, events, ops,
              accumulated_content, tool_calls, final_content, loop_i, nchunks>>
accVars == <<accRef, accAlt, accIn>>
newVars == <<pure, reqs, db>>
otherVars == <<accRef, accAlt, accIn, gw, pure, reqs, db>>
vars == <<pc, store, title, history, messages, events, ops,
          accumulated_content, tool_calls, final_content, loop_i, nchunks,
          accRef, accAlt, accIn, gw, pure, reqs, db>>

-----------------------------------------------------------------------------
(* Bounds of the model *)

\* chunks read from the first-round stream
MaxDeltas == 3
\* chunks read from the second-round stream
MaxFinal == 2
\* lines of a text handed to the formatter
MaxLines == 4
\* tokens of a content handed to save_message
MaxContent == 3
\* characters of a generated title between its quotes, and of a user message
MaxTitleLen == 52
MaxMessageLen == 32
\* tool-call deltas fed to the accumulator alone
MaxAccDeltas == 3
\* chunks of the first-round and of the second-round stream of each of two
\* concurrent requests
MaxTwoDeltas == 2
MaxTwoFinal == 1
\* messages of a session when it is deleted
MaxSessionMessages == 2
\* events the core yields to the route in one stream
MaxCoreEvents == 4
\* the last tick of the clock the rate limiters read
MaxClock == 3
\* messages a session holds when ChatService is asked to process a message
MaxServiceHistory == 3
\* the last second of the clock the response cache reads
MaxNow == 60
\* messages in the store when the response cache is exercised
MaxCacheMessages == 3
\* the last second of the clock the profile cache reads
MaxProfileNow == 300

-----------------------------------------------------------------------------
(* Text helpers (Python str methods on token sequences) *)

NL == "\n"

IsWs(c) == c \in {" ", NL}

RECURSIVE LStrip(_)
LStrip(t) == IF t = <<>> THEN <<>>
             ELSE IF IsWs(Head(t)) THEN LStrip(Tail(t)) ELSE t

RECURSIVE RStrip(_)
RStrip(t) == IF t = <<>> THEN <<>>
             ELSE IF IsWs(t[Len(t)]) THEN RStrip(SubSeq(t, 1, Len(t) - 1)) ELSE t

\* str.strip()
Strip(t) == RStrip(LStrip(t))

StartsWith(t, p) == Len(t) >= Len(p) /\ SubSeq(t, 1, Len(p)) = p

Contains(t, c) == \E i \in 1..Len(t) : t[i] = c

\* str.split('\n'): always at least one line
RECURSIVE SplitLines(_, _)
SplitLines(t, cur) ==
    IF t = <<>> THEN <<cur>>
    ELSE IF Head(t) = NL THEN <<cur>> \o SplitLines(Tail(t), <<>>)
    ELSE SplitLines(Tail(t), Append(cur, Head(t)))

\* '\n'.join(lines)
RECURSIVE JoinLines(_)
JoinLines(ls) ==
    IF ls = <<>> THEN <<>>
    ELSE IF Len(ls) = 1 THEN ls[1]
    ELSE ls[1] \o <<NL>> \o JoinLines(Tail(ls))

-----------------------------------------------------------------------------
(* enhance_response_formatting *)

\* the line filter of the for loop: a dropped line is a [debug] marker or a
\* 'Talked to ... supabase.co' line
IsDroppedLine(line) ==
    \/ StartsWith(Strip(line), <<">", " ", "[debug]">>)
    \/ StartsWith(Strip(line), <<"[debug]">>)
    \/ (Contains(line, "Talked to") /\ Contains(line, "supabase.co"))

RECURSIVE KeepLines(_)
KeepLines(ls) ==
    IF ls = <<>> THEN <<>>
    ELSE IF IsDroppedLine(Head(ls)) THEN KeepLines(Tail(ls))
    ELSE <<Head(ls)>> \o KeepLines(Tail(ls))

\* index of the first "\n" at or after i, 0 when there is none
RECURSIVE NextNewline(_, _)
NextNewline(t, i) ==
    IF i > Len(t) THEN 0
    ELSE IF t[i] = NL THEN i ELSE NextNewline(t, i + 1)

\* index of the first ":" at or after i, 0 when there is none
RECURSIVE NextColon(_, _)
NextColon(t, i) ==
    IF i > Len(t) THEN 0
    ELSE IF t[i] = ":" THEN i ELSE NextColon(t, i + 1)

\* length of the run of "\n" starting at i
RECURSIVE NewlineRun(_, _)
NewlineRun(t, i) ==
    IF i > Len(t) \/ t[i] # NL THEN 0 ELSE 1 + NewlineRun(t, i + 1)

\* the group of a pattern \n(G)\n that stays on one line
LineGroupOk(rule, g) ==
    CASE rule = "header"       -> Len(g) >= 3 /\ g[1] = "#" /\ g[2] = "#"
      [] rule = "bullet"       -> Len(g) >= 3 /\ g[1] = "-" /\ g[2] = " "
      [] rule = "conclusion"   -> g = <<"#", "#", "#", " ", "Conclusion">>
      [] rule = "observations" -> g = <<"#", "#", "#", " ", "Key Observations">>
      [] rule = "sentiment"    -> g = <<"#", "#", "#", " ", "Sentiment Summary">>
      [] rule = "arrow"        -> Len(g) >= 5 /\ SubSeq(g, 1, 4) = <<":", "arrow_right", ":", " ">>
      [] OTHER                 -> FALSE

\* last index of the match of the rule's pattern starting at i, 0 for no match
MatchEnd(rule, t, i) ==
    IF rule = "collapse"
    THEN IF NewlineRun(t, i) >= 3 THEN i + NewlineRun(t, i) - 1 ELSE 0
    ELSE IF t[i] # NL THEN 0
    ELSE IF rule = "emoji"
    THEN \* \n(- :[^:]+: [^\n]+)\n : [^:]+ may run over line ends
         IF ~(Len(t) >= i + 3 /\ t[i + 1] = "-" /\ t[i + 2] = " " /\ t[i + 3] = ":") THEN 0
         ELSE LET k == NextColon(t, i + 4) IN
              IF k < i + 5 \/ k + 1 > Len(t) \/ t[k + 1] # " " THEN 0
              ELSE LET j == NextNewline(t, k + 2) IN
                   IF j >= k + 3 THEN j ELSE 0
    ELSE LET j == NextNewline(t, i + 1) IN
         IF j > i + 1 /\ LineGroupOk(rule, SubSeq(t, i + 1, j - 1)) THEN j ELSE 0

\* a variant whose replacement templates lack the group reference
ReplacementWithoutGroup(rule, m) ==
    IF rule = "bullet" THEN <<NL, NL>> ELSE <<NL, NL, NL, NL>>

\* the replacement text for a match m (m includes both delimiting "\n")
Replacement(rule, m) ==
    LET g == SubSeq(m, 2, Len(m) - 1) IN
    CASE rule = "collapse" -> <<NL, NL>>
      [] rule = "bullet"   -> <<NL>> \o g \o <<NL>>
      [] rule = "emoji"    -> <<NL>> \o g \o <<NL, NL>>
      [] OTHER             -> <<NL, NL>> \o g \o <<NL, NL>>

\* re.sub(pattern, repl, t): leftmost non-overlapping matches, scanning from i
RECURSIVE ReSub(_, _, _)
ReSub(rule, t, i) ==
    IF i > Len(t) THEN <<>>
    ELSE LET e == MatchEnd(rule, t, i) IN
         IF e = 0 THEN <<t[i]>> \o ReSub(rule, t, i + 1)
         ELSE Replacement(rule, SubSeq(t, i, e)) \o ReSub(rule, t, e + 1)

\* a variant without the last two steps
enhance_response_formattingNoCleanup(response) ==
    IF response = <<>> THEN response
    ELSE LET c0 == Strip(JoinLines(KeepLines(SplitLines(response, <<>>))))
             c1 == ReSub("header", c0, 1)
             c2 == ReSub("bullet", c1, 1)
             c3 == ReSub("emoji", c2, 1)
             c4 == ReSub("conclusion", c3, 1)
             c5 == ReSub("observations", c4, 1)
             c6 == ReSub("sentiment", c5, 1)
             c7 == ReSub("arrow", c6, 1)
         IN  c7

enhance_response_formatting(response) ==
    IF response = <<>> THEN response
    ELSE LET c0 == Strip(JoinLines(KeepLines(SplitLines(response, <<>>))))
             c1 == ReSub("header", c0, 1)
             c2 == ReSub("bullet", c1, 1)
             c3 == ReSub("emoji", c2, 1)
             c4 == ReSub("conclusion", c3, 1)
             c5 == ReSub("observations", c4, 1)
             c6 == ReSub("sentiment", c5, 1)
             c7 == ReSub("arrow", c6, 1)
             c8 == ReSub("collapse", c7, 1)
         IN  Strip(c8)

-----------------------------------------------------------------------------
(* Lookup tables of the gateway *)

SUPABASE_FUNCTIONS ==
    [getOrdersOverTime |-> "get-orders-over-time",
     getOrdersByStatus |-> "get-orders-by-status",
     fetchLatestOkendoReviews |-> "okendo-review-query",
     getReviewsByRatingRange |-> "get-reviews-by-rating-range",
     getReviewsByKeyword |-> "get-reviews-by-keyword",
     getReviewsByDateRange |-> "get-reviews-by-date-range",
     getReviewSummaryByProductName |-> "get-review-summary-by-product-name",
     getSentimentSummary |-> "get-reviews-by-sentiment",
     getOrderDetails |-> "get-order-details",
     getTopProducts |-> "get-top-products",
     getLineItemAggregates |-> "get-line-item-aggregates",
     getDiscountUsage |-> "get-discount-usage",
     getOrdersWithDiscounts |-> "get-orders-with-discounts",
     getCustomers |-> "get-customers",
     getInactiveCustomers |-> "get-inactive-customers",
     getCustomerOrders |-> "get-customer-orders",
     getPostPurchaseInsights |-> "analyze-post-purchase-feedback",
     getCustomersStats |-> "get-customers-stats",
     getTopCustomersRepeatFrequency |-> "get-top-customers-repeat-frequency",
     orchestrator |-> "orchestrator",
     getEventCounts |-> "get-event-counts",
     getEmailEventRatios |-> "get-email-click-ratio",
     getTopClickedUrls |-> "get-top-clicked-urls",
     getCampaignReasoning |-> "campaign_reasoning",
     getEventLogSlice |-> "get-event-log-slice"]

HTTP_METHODS ==
    [getOrdersOverTime |-> "POST",
     getOrdersByStatus |-> "POST",
     fetchLatestOkendoReviews |-> "GET",
     getReviewsByRatingRange |-> "GET",
     getReviewsByKeyword |-> "GET",
     getReviewsByDateRange |-> "POST",
     getReviewSummaryByProductName |-> "GET",
     getSentimentSummary |-> "POST",
     getOrderDetails |-> "POST",
     getTopProducts |-> "GET",
     getLineItemAggregates |-> "POST",
     getDiscountUsage |-> "POST",
     getOrdersWithDiscounts |-> "GET",
     getCustomers |-> "GET",
     getInactiveCustomers |-> "GET",
     getCustomerOrders |-> "GET",
     getPostPurchaseInsights |-> "POST",
     getCustomersStats |-> "POST",
     getTopCustomersRepeatFrequency |-> "POST",
     orchestrator |-> "POST",
     getEventCounts |-> "POST",
     getEmailEventRatios |-> "POST",
     getTopClickedUrls |-> "POST",
     getCampaignReasoning |-> "POST",
     getEventLogSlice |-> "POST"]

\* dict.get(key, default)
DictGet(d, key, default) == IF key \in DOMAIN d THEN d[key] ELSE default

-----------------------------------------------------------------------------
(* call_supabase_edge *)

\* What the remote call can do: the transport raises, or a response arrives.
\* A response has a status code and a body that is JSON (payload) or not.
Payloads == {[rows |-> "r1"]}

Outcomes ==
    {[kind |-> "timeout"], [kind |-> "connection"], [kind |-> "unexpected"]}
    \cup {[kind |-> "response", status_code |-> 200, is_json |-> TRUE, body |-> p] : p \in Payloads}
    \cup {[kind |-> "response", status_code |-> 200, is_json |-> FALSE, body |-> "<html>"]}
    \cup {[kind |-> "response", status_code |-> c, is_json |-> j, body |-> "err body"] :
             c \in {404, 500}, j \in {FALSE}}

\* the outcomes the request flow is run with
FlowOutcomes ==
    {[kind |-> "timeout"],
     [kind |-> "response", status_code |-> 200, is_json |-> TRUE, body |-> [rows |-> "r1"]]}

\* a variant that ignores the verb table
GatewayRequestAlwaysPost(fn_name, args) ==
    [method |-> "POST", endpoint |-> DictGet(SUPABASE_FUNCTIONS, fn_name, fn_name),
     query |-> {}, has_query |-> FALSE, has_body |-> TRUE, body |-> args]

\* lines 479-515: endpoint, verb, and where the arguments travel
GatewayRequest(fn_name, args) ==
    LET mapped_name == DictGet(SUPABASE_FUNCTIONS, fn_name, fn_name)
        http_method == DictGet(HTTP_METHODS, fn_name, "POST")
    IN  IF http_method = "GET"
        THEN [method |-> "GET", endpoint |-> mapped_name,
              query |-> IF args # {} THEN args ELSE {}, has_query |-> args # {},
              has_body |-> FALSE, body |-> {}]
        ELSE [method |-> "POST", endpoint |-> mapped_name,
              query |-> {}, has_query |-> FALSE,
              has_body |-> TRUE, body |-> args]

\* a variant that does not catch the decode error of a 200 response: the
\* generic handler turns it into an error record
GatewayResultDecodeUncaught(outcome) ==
    IF outcome.kind = "response"
    THEN IF outcome.status_code = 200 /\ outcome.is_json
         THEN [raised |-> FALSE, value |-> outcome.body]
         ELSE [raised |-> FALSE,
               value |-> [error |-> <<"Unexpected error calling Supabase function: ",
                                      "JSONDecodeError">>]]
    ELSE [raised |-> FALSE, value |-> [error |-> <<"Request failed">>]]

\* lines 517-551: the result for each outcome of the remote call.
\* raised is TRUE iff an exception leaves the function.
GatewayResult(outcome) ==
    CASE outcome.kind = "timeout" ->
           [raised |-> FALSE,
            value |-> [error |-> <<"Request to Supabase function timed out">>]]
      [] outcome.kind = "connection" ->
           [raised |-> FALSE,
            value |-> [error |-> <<"Request to Supabase function failed: ", "ConnectionError">>]]
      [] outcome.kind = "unexpected" ->
           [raised |-> FALSE,
            value |-> [error |-> <<"Unexpected error calling Supabase function: ", "Exception">>]]
      [] outcome.kind = "response" ->
           IF outcome.status_code = 200
           THEN IF outcome.is_json
                THEN [raised |-> FALSE, value |-> outcome.body]
                ELSE [raised |-> FALSE,
                      value |-> [data |-> outcome.body,
                                 warning |-> "Response was not valid JSON"]]
           ELSE [raised |-> FALSE,
                 value |-> [error |-> <<"Supabase function returned status ",
                                        ToString(outcome.status_code), ": ", outcome.body>>,
                            status_code |-> outcome.status_code]]

call_supabase_edge(fn_name, args, outcome) ==
    [request |-> GatewayRequest(fn_name, args),
     outcome |-> outcome,
     result |-> GatewayResult(outcome)]

-----------------------------------------------------------------------------
(* json.loads of a tool call's argument text *)

\* Argument texts are built from the tokens "{", "}", "," and pair tokens;
\* a pair token stands for one "key": value member.
PairTokens == {"p"}

\* the members of a comma-separated member list, or "bad"
RECURSIVE JsonMembers(_)
JsonMembers(m) ==
    IF Len(m) = 1 THEN IF m[1] \in PairTokens THEN {m[1]} ELSE {"bad"}
    ELSE IF Len(m) >= 3 /\ m[1] \in PairTokens /\ m[2] = ","
         THEN {m[1]} \cup JsonMembers(SubSeq(m, 3, Len(m)))
         ELSE {"bad"}

\* json.loads(text): ok with the decoded mapping, or a JSONDecodeError
json_loads(text) ==
    IF Len(text) >= 2 /\ text[1] = "{" /\ text[Len(text)] = "}"
    THEN LET m == SubSeq(text, 2, Len(text) - 1) IN
         IF m = <<>> THEN [ok |-> TRUE, value |-> {}]
         ELSE IF "bad" \in JsonMembers(m) THEN [ok |-> FALSE, value |-> {}]
         ELSE [ok |-> TRUE, value |-> JsonMembers(m)]
    ELSE [ok |-> FALSE, value |-> {}]

\* a variant without the `or "{}"`: the empty text is handed to json.loads
LoadArgumentsStrict(arguments) == json_loads(arguments)

\* json.loads(arguments or "{}")
LoadArguments(arguments) ==
    json_loads(IF arguments = <<>> THEN <<"{", "}">> ELSE arguments)

\* json.dumps(value): the serialised text of a value
json_dumps(value) == [json |-> value]

-----------------------------------------------------------------------------
(* Tool-call accumulation, lines 359-380 *)

NoIndex == -1

EmptyToolCall == [id |-> "", type |-> "function", name |-> "", arguments |-> <<>>]

\* while len(tool_calls) <= index: tool_calls.append(placeholder)
RECURSIVE PadToolCalls(_, _)
PadToolCalls(tcs, index) ==
    IF Len(tcs) <= index THEN PadToolCalls(Append(tcs, EmptyToolCall), index) ELSE tcs

\* a variant that assigns the argument fragment instead of appending it
ApplyToolDeltaOverwrite(tcs, d) ==
    IF d.index = NoIndex THEN tcs
    ELSE LET padded == PadToolCalls(tcs, d.index)
             cur == padded[d.index + 1]
         IN  [padded EXCEPT ![d.index + 1] =
                 [id |-> IF d.id # "" THEN d.id ELSE cur.id,
                  type |-> IF d.type # "" THEN d.type ELSE cur.type,
                  name |-> IF d.name # "" THEN d.name ELSE cur.name,
                  arguments |-> IF d.arguments # <<>> THEN d.arguments
                                ELSE cur.arguments]]

\* a variant whose current_tool_call is always the first entry
ApplyToolDeltaFirstSlot(tcs, d) ==
    IF d.index = NoIndex THEN tcs
    ELSE LET padded == PadToolCalls(tcs, d.index)
             cur == padded[1]
         IN  [padded EXCEPT ![1] =
                 [id |-> IF d.id # "" THEN d.id ELSE cur.id,
                  type |-> IF d.type # "" THEN d.type ELSE cur.type,
                  name |-> IF d.name # "" THEN d.name ELSE cur.name,
                  arguments |-> cur.arguments \o d.arguments]]

\* the body of `for tool_call_delta in delta.tool_calls`
ApplyToolDelta(tcs, d) ==
    IF d.index = NoIndex THEN tcs
    ELSE LET padded == PadToolCalls(tcs, d.index)
             cur == padded[d.index + 1]
         IN  [padded EXCEPT ![d.index + 1] =
                 [id |-> IF d.id # "" THEN d.id ELSE cur.id,
                  type |-> IF d.type # "" THEN d.type ELSE cur.type,
                  name |-> IF d.name # "" THEN d.name ELSE cur.name,
                  arguments |-> cur.arguments \o d.arguments]]

\* any(tc["function"]["name"] for tc in tool_calls), with `tool_calls and`
HasToolCalls(tcs) == tcs # <<>> /\ \E i \in 1..Len(tcs) : tcs[i].name # ""

-----------------------------------------------------------------------------
(* save_message, get_history, update_chat_title *)

Placeholder == <<"Empty message">>

\* a variant that only tests `not content`
save_messageNoStrip(rows, role, content, ok) ==
    LET c == IF content = <<>> THEN Placeholder ELSE content
    IN  IF ok THEN Append(rows, [role |-> role, content |-> c, turn |-> 1]) ELSE rows

\* lines 553-566: the rows after save_message; ok is FALSE when the insert
\* raises, which the function swallows
save_message(rows, role, content, ok) ==
    LET c == IF content = <<>> \/ Strip(content) = <<>> THEN Placeholder ELSE content
    IN  IF ok THEN Append(rows, [role |-> role, content |-> c, turn |-> 1]) ELSE rows

\* lines 568-583: the rows in created_at order, [] when the select raises
get_history(rows, ok) == IF ok THEN rows ELSE <<>>

\* line 194: each stored message as a role/content pair
RolePairs(rows) == [i \in 1..Len(rows) |-> [role |-> rows[i].role, content |-> rows[i].content]]

\* str.strip('"\'')
RECURSIVE StripQuotes(_)
StripQuotes(t) ==
    IF t = <<>> THEN <<>>
    ELSE IF Head(t) \in {"\"", "'"} THEN StripQuotes(Tail(t))
    ELSE IF t[Len(t)] \in {"\"", "'"} THEN StripQuotes(SubSeq(t, 1, Len(t) - 1))
    ELSE t

Prefix(t, n) == SubSeq(t, 1, IF Len(t) < n THEN Len(t) ELSE n)

\* "..." as three characters
Ellipsis == <<".", ".", ".">>

\* a variant without the cut at 50 characters
CleanTitleUncut(generated) ==
    LET g == Strip(generated) IN
    IF g # <<>> THEN StripQuotes(g) ELSE <<"New Chat">>

\* lines 154-163
CleanTitle(generated) ==
    LET g == Strip(generated) IN
    IF g # <<>>
    THEN LET q == StripQuotes(g) IN
         IF Len(q) > 50 THEN Prefix(q, 47) \o Ellipsis ELSE q
    ELSE <<"New Chat">>

\* line 176
FallbackTitle(user_message) ==
    IF Len(user_message) > 30 THEN Prefix(user_message, 30) \o Ellipsis ELSE user_message

\* a variant whose except clause lacks the inner try/except
update_chat_titleFallbackRaises(old_title, user_message, llm, store_ok, fallback_ok) ==
    IF llm.ok /\ store_ok
    THEN [raised |-> FALSE, returned |-> CleanTitle(llm.text),
          stored |-> CleanTitle(llm.text)]
    ELSE IF fallback_ok
         THEN [raised |-> FALSE, returned |-> FallbackTitle(user_message),
               stored |-> FallbackTitle(user_message)]
         ELSE [raised |-> TRUE, returned |-> <<>>, stored |-> old_title]

\* lines 132-184. llm is the model call: it raises, or returns a text;
\* store_ok and fallback_ok tell whether the two updates of chat_sessions
\* succeed. Returns the title returned and the title left in the session
\* row; raised is TRUE iff an exception leaves the function.
update_chat_title(old_title, user_message, llm, store_ok, fallback_ok) ==
    IF llm.ok /\ store_ok
    THEN [raised |-> FALSE, returned |-> CleanTitle(llm.text),
          stored |-> CleanTitle(llm.text)]
    ELSE [raised |-> FALSE, returned |-> FallbackTitle(user_message),
          stored |-> IF fallback_ok THEN FallbackTitle(user_message) ELSE old_title]

-----------------------------------------------------------------------------
(* Inputs of one chat request *)

UserMessage == <<"What were my sales last week?">>

Today == "2026-11-05"

\* a session that already holds one exchange, or a new one
PriorRows == <<[role |-> "user", content |-> <<"earlier question">>, turn |-> 0],
               [role |-> "assistant", content |-> <<"earlier answer">>, turn |-> 0]>>

\* what the model returns for the title prompt
TitleOutputs ==
    {[ok |-> FALSE, text |-> <<>>], [ok |-> TRUE, text |-> <<"\"", "Sales", "\"">>]}

\* content fragments of the first and of the second round
Fragments == {<<"a">>, <<NL, "[debug]", NL>>}
FinalFragments == {<<"a">>, <<NL>>}

\* tool-call deltas of the first round: a header delta carries id, type and
\* name; an argument delta carries a fragment of the JSON text
CallIds == <<"call_0", "call_1">>

ToolDelta(i, id, ty, name, args) ==
    [kind |-> "tool", index |-> i, id |-> id, type |-> ty, name |-> name, arguments |-> args]

ToolDeltas ==
    {ToolDelta(0, CallIds[1], "function", "getTopProducts", <<>>)}
    \cup {ToolDelta(0, "", "", "", a) : a \in {<<"{">>, <<"p", "}">>}}
    \cup {ToolDelta(1, CallIds[2], "function", "getOrdersOverTime", <<>>)}

\* a chunk without choices, a content delta, or a tool-call delta
Deltas ==
    {[kind |-> "none"]}
    \cup {[kind |-> "content", content |-> f] : f \in Fragments}
    \cup ToolDeltas

FinalDeltas ==
    {[kind |-> "none"]} \cup {[kind |-> "content", content |-> f] : f \in FinalFragments}

SystemMessage == [role |-> "system", content |-> <<"system prompt: today is ", Today>>]
DateMessage == [role |-> "user", content |-> <<"Current date context: Today is ", Today>>]

Event(type, content, round) == [type |-> type, content |-> content, round |-> round]

-----------------------------------------------------------------------------
(* call_openai_streaming, lines 187-341 *)

Init ==
    /\ pc = "load"
    /\ store \in {<<>>, PriorRows}
    /\ title = <<"New Chat">>
    /\ history = <<>>
    /\ messages = <<>>
    /\ events = <<>>
    /\ ops = <<>>
    /\ accumulated_content = <<>>
    /\ tool_calls = <<>>
    /\ final_content = <<>>
    /\ loop_i = 0
    /\ nchunks = 0
    /\ accRef = <<>>
    /\ accAlt = <<>>
    /\ accIn = [phase |-> "off"]
    /\ gw = [state |-> "off"]
    /\ pure = [state |-> "off"]
    /\ reqs = <<>>
    /\ db = <<>>

\* lines 337-341: the except clause of call_openai_streaming
OuterExcept(e, ok, done) ==
    LET error_msg == <<"Error in call_openai_streaming: ", e>> IN
    /\ store' = save_message(store, "assistant", error_msg, ok)
    /\ ops' = ops \o done \o <<[op |-> "save", role |-> "assistant", ok |-> ok]>>
    /\ events' = Append(events, Event("error", error_msg, 0))
    /\ pc' = "done"

\* a variant without the except clause: the exception leaves the generator
InnerExceptPropagates(e, ok, done, yielded) ==
    /\ store' = store
    /\ ops' = ops \o done
    /\ events' = events \o yielded
    /\ pc' = "raised"

\* lines 466-472: the except clause of handle_openai_streaming_response
InnerExcept(e, ok, done, yielded) ==
    LET error_msg == <<"Error handling streaming response: ", e>> IN
    /\ store' = save_message(store, "assistant", error_msg, ok)
    /\ ops' = ops \o done \o <<[op |-> "save", role |-> "assistant", ok |-> ok]>>
    /\ events' = events \o yielded \o <<Event("error", error_msg, 0)>>
    /\ pc' = "done"

\* lines 193-194: read the history and map it to role/content pairs
LoadHistory ==
    /\ pc = "load"
    /\ \E ok \in BOOLEAN :
         LET h == get_history(store, ok) IN
         /\ history' = h
         /\ messages' = [i \in 1..Len(h) |-> [role |-> h[i].role, content |-> h[i].content]]
         /\ ops' = Append(ops, [op |-> "get_history"])
         /\ pc' = IF Len(h) = 0 THEN "title" ELSE "save_user"
    /\ UNCHANGED <<store, title, events, accumulated_content, tool_calls,
                   final_content, loop_i, nchunks, otherVars>>

\* lines 197-199: the first message of a session generates the title
GenerateTitle ==
    /\ pc = "title"
    /\ \E llm \in TitleOutputs, store_ok \in BOOLEAN, fallback_ok \in BOOLEAN :
         /\ (llm.ok /\ store_ok) => fallback_ok
         /\ title' = update_chat_title(title, UserMessage, llm, store_ok, fallback_ok).stored
         /\ ops' = Append(ops, [op |-> "llm", purpose |-> "title", tools |-> FALSE,
                                raises |-> ~llm.ok])
    /\ pc' = "save_user"
    /\ UNCHANGED <<store, history, messages, events, accumulated_content, tool_calls,
                   final_content, loop_i, nchunks, otherVars>>

\* lines 310-320: assemble openai_messages, then save the user message
SaveUserMessage ==
    /\ pc = "save_user"
    /\ messages' = <<SystemMessage>> \o messages
                      \o <<DateMessage, [role |-> "user", content |-> UserMessage]>>
    /\ \E ok \in BOOLEAN :
         /\ store' = save_message(store, "user", UserMessage, ok)
         /\ ops' = Append(ops, [op |-> "save", role |-> "user", ok |-> ok])
    /\ pc' = "call1"
    /\ UNCHANGED <<title, history, events, accumulated_content, tool_calls,
                   final_content, loop_i, nchunks, otherVars>>

\* lines 323-331: the request of the first round carries the tool catalog
FirstModelCall == [op |-> "llm", purpose |-> "first", tools |-> TRUE]

\* lines 322-331: the first model call
CallModelFirst ==
    /\ pc = "call1"
    /\ LET call == FirstModelCall IN
       \/ /\ ops' = Append(ops, call @@ [raises |-> FALSE])
          /\ pc' = "stream1"
          /\ UNCHANGED <<store, events>>
       \/ \E ok \in BOOLEAN :
            OuterExcept("APIError", ok, <<call @@ [raises |-> TRUE]>>)
    /\ UNCHANGED <<title, history, messages, accumulated_content, tool_calls,
                   final_content, loop_i, nchunks, otherVars>>

-----------------------------------------------------------------------------
(* handle_openai_streaming_response, lines 343-472 *)

\* Where the generator is after a step: a step that ends in a yield resumes
\* at next, or the generator is closed there (the client went away and the
\* route stopped iterating); GeneratorExit is not an Exception, so neither
\* except clause runs. The yield of an error event is the last statement of
\* the generator and is not a place where closing changes anything.
AfterYield(yields, next) == IF yields THEN {next, "closed"} ELSE {next}

\* a variant that keeps the text for the end of the stream
YieldContentWithheld(evs, text, round) == evs

\* lines 384-388 and 443-447: the content event yielded for a content delta
YieldContent(evs, text, round) == Append(evs, Event("content", text, round))

\* lines 352-388: one chunk of the first-round stream
ConsumeDelta ==
    /\ pc = "stream1"
    /\ nchunks < MaxDeltas
    /\ \E d \in Deltas :
         /\ nchunks' = nchunks + 1
         /\ CASE d.kind = "none" ->
                   UNCHANGED <<tool_calls, accumulated_content, events>>
              [] d.kind = "tool" ->
                   /\ tool_calls' = ApplyToolDelta(tool_calls, d)
                   /\ UNCHANGED <<accumulated_content, events>>
              [] d.kind = "content" ->
                   /\ accumulated_content' = accumulated_content \o d.content
                   /\ events' = YieldContent(events, d.content, 1)
                   /\ UNCHANGED tool_calls
         /\ pc' \in AfterYield(d.kind = "content", pc)
    /\ UNCHANGED <<store, title, history, messages, ops, final_content, loop_i,
                   otherVars>>

\* the stream raises while it is iterated (either round)
StreamRaises ==
    /\ pc \in {"stream1", "stream2"}
    /\ \E ok \in BOOLEAN :
         InnerExcept("APIConnectionError", ok,
                     <<[op |-> "stream", purpose |-> pc, raises |-> TRUE]>>, <<>>)
    /\ UNCHANGED <<title, history, messages, accumulated_content, tool_calls,
                   final_content, loop_i, nchunks, otherVars>>

\* lines 390-399: the stream ended with a named tool call
AnnounceToolCalls ==
    /\ pc = "stream1"
    /\ HasToolCalls(tool_calls)
    /\ events' = Append(events, Event("tool_calls", <<"Processing your request...">>, 0))
    /\ pc' \in AfterYield(TRUE, "exec")
    /\ messages' = IF pc' = "closed" THEN messages
                   ELSE Append(messages, [role |-> "assistant",
                                          content |-> accumulated_content,
                                          tool_calls |-> tool_calls])
    /\ loop_i' = 0
    /\ UNCHANGED <<store, title, history, ops, accumulated_content, tool_calls,
                   final_content, nchunks, otherVars>>

\* lines 457-464: the stream ended without a named tool call
FinishNoTools ==
    /\ pc = "stream1"
    /\ ~HasToolCalls(tool_calls)
    /\ IF accumulated_content # <<>>
       THEN \E ok \in BOOLEAN :
              /\ accumulated_content' = enhance_response_formatting(accumulated_content)
              /\ store' = save_message(store, "assistant", accumulated_content', ok)
              /\ ops' = Append(ops, [op |-> "save", role |-> "assistant", ok |-> ok])
       ELSE UNCHANGED <<accumulated_content, store, ops>>
    /\ pc' = "done"
    /\ UNCHANGED <<title, history, messages, events, tool_calls, final_content,
                   loop_i, nchunks, otherVars>>

\* a variant whose except clause only logs
ToolFailureDropped(msgs, tool_call, e) == msgs

\* lines 419-426: the except clause of the loop body appends an error-shaped
\* tool message for the call
ToolFailure(msgs, tool_call, e) ==
    Append(msgs, [role |-> "tool", tool_call_id |-> tool_call.id,
                  content |-> json_dumps([error |-> <<"Tool execution failed: ", e>>])])

\* lines 413-417: the tool message carrying the gateway's result
ToolSuccess(msgs, tool_call, result) ==
    Append(msgs, [role |-> "tool", tool_call_id |-> tool_call.id,
                  content |-> json_dumps(result)])

\* lines 402-426: one iteration of `for tool_call in tool_calls`
ExecuteToolCall ==
    /\ pc = "exec"
    /\ loop_i < Len(tool_calls)
    /\ LET tool_call == tool_calls[loop_i + 1]
           fn_name == tool_call.name
           fn_args == LoadArguments(tool_call.arguments)
       IN  IF ~fn_args.ok
           THEN \* json.loads raises before the yield
                /\ messages' = ToolFailure(messages, tool_call, "JSONDecodeError")
                /\ loop_i' = loop_i + 1
                /\ UNCHANGED <<pc, events, ops>>
           ELSE /\ events' = Append(events, Event("tool_execution",
                                                  <<"Executing ", fn_name, "...">>, 0))
                /\ pc' \in AfterYield(TRUE, pc)
                /\ IF pc' = "closed"
                   THEN UNCHANGED <<ops, messages, loop_i>>
                   ELSE \E outcome \in FlowOutcomes :
                          LET call == call_supabase_edge(fn_name, fn_args.value, outcome) IN
                          /\ ops' = Append(ops, [op |-> "gateway", fn_name |-> fn_name,
                                                 args |-> fn_args.value,
                                                 index |-> loop_i + 1,
                                                 call_id |-> tool_call.id, call |-> call])
                          /\ messages' = IF call.result.raised
                                          THEN ToolFailure(messages, tool_call, "Exception")
                                          ELSE ToolSuccess(messages, tool_call,
                                                           call.result.value)
                          /\ loop_i' = loop_i + 1
    /\ UNCHANGED <<store, title, history, accumulated_content, tool_calls,
                   final_content, nchunks, otherVars>>

\* a variant that starts the second round without the marker
FinalResponseMarkerDropped == <<>>

\* line 429: what is yielded before the second model call
FinalResponseMarker == <<Event("final_response", <<"Generating final response...">>, 0)>>

\* a variant that sends the tool catalog again
FinalModelCallWithTools == [op |-> "llm", purpose |-> "final", tools |-> TRUE]

\* lines 431-437: the request of the second round has no tools argument
FinalModelCall == [op |-> "llm", purpose |-> "final", tools |-> FALSE]

\* lines 428-437: the final_response marker and the second model call
CallModelFinal ==
    /\ pc = "exec"
    /\ loop_i = Len(tool_calls)
    /\ LET call == FinalModelCall
       IN  \/ /\ events' = events \o FinalResponseMarker
              /\ pc' = "closed"
              /\ UNCHANGED <<ops, store, nchunks>>
           \/ /\ events' = events \o FinalResponseMarker
              /\ ops' = Append(ops, call @@ [raises |-> FALSE])
              /\ pc' = "stream2"
              /\ nchunks' = 0
              /\ UNCHANGED store
           \/ /\ \E ok \in BOOLEAN :
                   InnerExcept("APIError", ok, <<call @@ [raises |-> TRUE]>>,
                               FinalResponseMarker)
              /\ UNCHANGED nchunks
    /\ UNCHANGED <<title, history, messages, accumulated_content, tool_calls,
                   final_content, loop_i, otherVars>>

\* lines 440-447: one chunk of the second-round stream
ConsumeFinalDelta ==
    /\ pc = "stream2"
    /\ nchunks < MaxFinal
    /\ \E d \in FinalDeltas :
         /\ nchunks' = nchunks + 1
         /\ IF d.kind = "content"
            THEN /\ final_content' = final_content \o d.content
                 /\ events' = YieldContent(events, d.content, 2)
            ELSE UNCHANGED <<final_content, events>>
         /\ pc' \in AfterYield(d.kind = "content", pc)
    /\ UNCHANGED <<store, title, history, messages, ops, accumulated_content,
                   tool_calls, loop_i, otherVars>>

\* lines 449-455: the second-round stream ended
FinishWithTools ==
    /\ pc = "stream2"
    /\ IF final_content # <<>>
       THEN \E ok \in BOOLEAN :
              /\ final_content' = enhance_response_formatting(final_content)
              /\ store' = save_message(store, "assistant", final_content', ok)
              /\ ops' = Append(ops, [op |-> "save", role |-> "assistant", ok |-> ok])
       ELSE UNCHANGED <<final_content, store, ops>>
    /\ pc' = "done"
    /\ UNCHANGED <<title, history, messages, events, accumulated_content, tool_calls,
                   loop_i, nchunks, otherVars>>

Next ==
    \/ LoadHistory
    \/ GenerateTitle
    \/ SaveUserMessage
    \/ CallModelFirst
    \/ ConsumeDelta
    \/ StreamRaises
    \/ AnnounceToolCalls
    \/ FinishNoTools
    \/ ExecuteToolCall
    \/ CallModelFinal
    \/ ConsumeFinalDelta
    \/ FinishWithTools

Spec == Init /\ [][Next]_vars

-----------------------------------------------------------------------------
(* The accumulator alone: two complete calls fed twice *)

\* the complete calls a model can emit at index 0 and at index 1
ArgTexts == {<<>>, <<"{", "}">>, <<"{", "p", "}">>, <<"{", "p", ",", "p", "}">>}
CompleteCalls(i) ==
    {[id |-> CallIds[i + 1], name |-> n, arguments |-> a] :
        n \in {"getTopProducts", "getOrdersOverTime"}, a \in ArgTexts}

InitAcc ==
    /\ pc = "off"
    /\ store = <<>>
    /\ title = <<>>
    /\ history = <<>>
    /\ messages = <<>>
    /\ events = <<>>
    /\ ops = <<>>
    /\ accumulated_content = <<>>
    /\ tool_calls = <<>>
    /\ final_content = <<>>
    /\ loop_i = 0
    /\ nchunks = 0
    /\ gw = [state |-> "off"]
    /\ pure = [state |-> "off"]
    /\ reqs = <<>>
    /\ db = <<>>
    /\ accRef = <<>>
    /\ accAlt = <<>>
    /\ \E c0 \in CompleteCalls(0), c1 \in CompleteCalls(1) :
         accIn = [phase |-> "ref", calls |-> <<c0, c1>>, at |-> 1, sent |-> FALSE,
                  rest |-> <<>>, nfrag |-> 0]

\* the reference feed: index 0 then index 1, each call in one delta
AccFeedRef ==
    /\ accIn.phase = "ref"
    /\ LET c == accIn.calls[accIn.at] IN
       accRef' = ApplyToolDelta(accRef,
                    ToolDelta(accIn.at - 1, c.id, "function", c.name, c.arguments))
    /\ accIn' = IF accIn.at = 1
                THEN [accIn EXCEPT !.at = 2]
                ELSE [accIn EXCEPT !.phase = "alt", !.at = 2, !.sent = FALSE,
                                   !.rest = accIn.calls[2].arguments]
    /\ UNCHANGED <<flowVars, accAlt, gw, newVars>>

\* the other feed, first delta of a call: id and name, with a prefix of the
\* argument text (possibly empty)
AccFeedHead ==
    /\ accIn.phase = "alt"
    /\ ~accIn.sent
    /\ \E k \in 0..Len(accIn.rest) :
         LET c == accIn.calls[accIn.at] IN
         /\ accAlt' = ApplyToolDelta(accAlt,
                         ToolDelta(accIn.at - 1, c.id, "function", c.name,
                                   SubSeq(accIn.rest, 1, k)))
         /\ accIn' = [accIn EXCEPT !.sent = TRUE,
                                   !.rest = SubSeq(accIn.rest, k + 1, Len(accIn.rest))]
    /\ UNCHANGED <<flowVars, accRef, gw, newVars>>

\* the other feed, a later delta of a call: a non-empty piece of what is left
AccFeedFragment ==
    /\ accIn.phase = "alt"
    /\ accIn.sent
    /\ accIn.rest # <<>>
    /\ \E k \in 1..Len(accIn.rest) :
         /\ accAlt' = ApplyToolDelta(accAlt,
                         ToolDelta(accIn.at - 1, "", "", "", SubSeq(accIn.rest, 1, k)))
         /\ accIn' = [accIn EXCEPT !.rest = SubSeq(accIn.rest, k + 1, Len(accIn.rest)),
                                   !.nfrag = accIn.nfrag + 1]
    /\ UNCHANGED <<flowVars, accRef, gw, newVars>>

\* the other feed: index 1 is complete, go on with index 0; then the stream ends
AccNextCall ==
    /\ accIn.phase = "alt"
    /\ accIn.sent
    /\ accIn.rest = <<>>
    /\ accIn' = IF accIn.at = 2
                THEN [accIn EXCEPT !.at = 1, !.sent = FALSE,
                                   !.rest = accIn.calls[1].arguments]
                ELSE [accIn EXCEPT !.phase = "end"]
    /\ UNCHANGED <<flowVars, accRef, accAlt, gw, newVars>>

NextAcc == AccFeedRef \/ AccFeedHead \/ AccFeedFragment \/ AccNextCall

SpecAcc == InitAcc /\ [][NextAcc]_vars

-----------------------------------------------------------------------------
(* The gateway alone: one call for every function name, argument mapping and
   outcome of the remote call *)

\* the function names of the catalog offered to the model, in catalog order
\* (src/app/routes/chat.py, lines 369-941)
tools ==
    <<"fetchLatestOkendoReviews", "getReviewsByRatingRange", "getReviewsByKeyword",
      "getReviewsByDateRange", "getReviewSummaryByProductName", "getSentimentSummary",
      "getOrdersOverTime", "getOrdersByStatus", "getOrderDetails", "getTopProducts",
      "getLineItemAggregates", "getDiscountUsage", "getOrdersWithDiscounts",
      "getCustomers", "getTopCustomers", "getInactiveCustomers",
      "getCustomerSignupsOverTime", "getCustomerOrders", "getPostPurchaseInsights",
      "restrictedAnswer", "getEventCounts", "getEmailEventRatios", "getTopClickedUrls",
      "getCampaignReasoning", "getEventLogSlice">>

ToolNames == {tools[i] : i \in 1..Len(tools)}

\* the names the model may put into a tool call: the catalogued ones, the
\* other keys of the table, a name of its own and the empty name
FunctionNames == DOMAIN SUPABASE_FUNCTIONS \cup ToolNames \cup {"customTool", ""}
ArgMaps == {{}, {"p"}}

InitGw ==
    /\ pc = "off"
    /\ store = <<>>
    /\ title = <<>>
    /\ history = <<>>
    /\ messages = <<>>
    /\ events = <<>>
    /\ ops = <<>>
    /\ accumulated_content = <<>>
    /\ tool_calls = <<>>
    /\ final_content = <<>>
    /\ loop_i = 0
    /\ nchunks = 0
    /\ accRef = <<>>
    /\ accAlt = <<>>
    /\ accIn = [phase |-> "off"]
    /\ pure = [state |-> "off"]
    /\ reqs = <<>>
    /\ db = <<>>
    /\ \E f \in FunctionNames, a \in ArgMaps, o \in Outcomes :
         gw = [state |-> "called", fn_name |-> f, args |-> a, outcome |-> o]

GwReturn ==
    /\ gw.state = "called"
    /\ gw' = [state |-> "returned", fn_name |-> gw.fn_name, args |-> gw.args,
              outcome |-> gw.outcome,
              call |-> call_supabase_edge(gw.fn_name, gw.args, gw.outcome)]
    /\ UNCHANGED <<flowVars, accVars, newVars>>

NextGw == GwReturn

SpecGateway == InitGw /\ [][NextGw]_vars

-----------------------------------------------------------------------------
(* The formatter alone: enhance_response_formatting applied to a text, and
   applied again to its own output *)

\* the lines a text is made of: blank, whitespace, plain, header, bullet,
\* emoji bullet, arrow, the two debug markers, gateway trace
FmtLines ==
    {<<>>,
     <<" ">>,
     <<"a">>,
     <<" ", ">", " ", "[debug]">>,
     <<"#", "#", " ", "a">>,
     <<"-", " ", "a">>,
     <<"-", " ", ":", "a", ":", " ", "a">>,
     <<":", "arrow_right", ":", " ", "a">>,
     <<"[debug]", " ", "a">>,
     <<"Talked to", " ", "supabase.co">>}

\* the variables of the request flow, idle
FlowOff ==
    /\ pc = "off"
    /\ store = <<>>
    /\ title = <<>>
    /\ history = <<>>
    /\ messages = <<>>
    /\ events = <<>>
    /\ ops = <<>>
    /\ accumulated_content = <<>>
    /\ tool_calls = <<>>
    /\ final_content = <<>>
    /\ loop_i = 0
    /\ nchunks = 0

AccOff == accRef = <<>> /\ accAlt = <<>> /\ accIn = [phase |-> "off"]

InitFmt ==
    /\ FlowOff
    /\ AccOff
    /\ gw = [state |-> "off"]
    /\ reqs = <<>>
    /\ db = <<>>
    /\ \E n \in 1..MaxLines : \E ls \in [1..n -> FmtLines] :
         pure = [state |-> "input", response |-> JoinLines(ls)]

\* content = enhance_response_formatting(response)
FmtApply ==
    /\ pure.state = "input"
    /\ pure' = [state |-> "once", response |-> pure.response,
                content |-> enhance_response_formatting(pure.response)]
    /\ UNCHANGED <<flowVars, accVars, gw, reqs, db>>

\* the formatter applied to its own output
FmtApplyAgain ==
    /\ pure.state = "once"
    /\ pure' = [state |-> "twice", response |-> pure.response, content |-> pure.content,
                again |-> enhance_response_formatting(pure.content)]
    /\ UNCHANGED <<flowVars, accVars, gw, reqs, db>>

NextFmt == FmtApply \/ FmtApplyAgain

SpecFmt == InitFmt /\ [][NextFmt]_vars

-----------------------------------------------------------------------------
(* save_message alone: one call for every role and content *)

Roles == {"user", "assistant", "system", "tool"}

\* the contents: every text of up to MaxContent tokens out of a letter, a
\* space and a line end; the empty text also stands for None (`not content`)
Contents == UNION {[1..n -> {"a", " ", NL}] : n \in 0..MaxContent}

InitSave ==
    /\ FlowOff
    /\ AccOff
    /\ gw = [state |-> "off"]
    /\ reqs = <<>>
    /\ db = <<>>
    /\ \E role \in Roles, content \in Contents, ok \in BOOLEAN :
         pure = [state |-> "save", role |-> role, content |-> content, ok |-> ok]

\* save_message(session_id, role, content) on an empty table
SaveReturn ==
    /\ pure.state = "save"
    /\ pure' = [state |-> "saved", role |-> pure.role, content |-> pure.content,
                ok |-> pure.ok,
                rows |-> save_message(<<>>, pure.role, pure.content, pure.ok)]
    /\ UNCHANGED <<flowVars, accVars, gw, reqs, db>>

NextSave == SaveReturn

SpecSave == InitSave /\ [][NextSave]_vars

-----------------------------------------------------------------------------
(* The accumulator alone: any sequence of tool-call deltas *)

\* a delta without index, and for each index every combination of a header
\* (none, an id alone, an id with a name) and an argument fragment
AnyToolDeltas ==
    {ToolDelta(NoIndex, "call_a", "function", "getTopProducts", <<"x">>)}
    \cup {ToolDelta(i, h[1], h[2], h[3], a) :
             i \in {0, 1},
             h \in {<<"", "", "">>,
                    <<"call_a", "function", "">>,
                    <<"call_a", "function", "getTopProducts">>,
                    <<"call_b", "function", "getOrdersOverTime">>},
             a \in {<<>>, <<"x">>, <<"y">>}}

InitDeltas ==
    /\ FlowOff
    /\ gw = [state |-> "off"]
    /\ pure = [state |-> "off"]
    /\ reqs = <<>>
    /\ db = <<>>
    /\ accRef = <<>>
    /\ accAlt = <<>>
    /\ accIn = [phase |-> "any", seen |-> <<>>]

\* lines 359-380: one tool-call delta; accIn.seen keeps the deltas consumed
AccFeedAny ==
    /\ accIn.phase = "any"
    /\ Len(accIn.seen) < MaxAccDeltas
    /\ \E d \in AnyToolDeltas :
         /\ accRef' = ApplyToolDelta(accRef, d)
         /\ accIn' = [accIn EXCEPT !.seen = Append(@, d)]
    /\ UNCHANGED <<flowVars, accAlt, gw, newVars>>

NextDeltas == AccFeedAny

SpecDeltas == InitDeltas /\ [][NextDeltas]_vars

-----------------------------------------------------------------------------
(* update_chat_title alone: one call for every generated text, user message
   and outcome of the model call and of the two updates. Here a token is one
   character. *)

Letters == <<"a", "b", "c", "d", "e">>

\* a text of n characters
Chars(n) == [i \in 1..n |-> Letters[((i - 1) % 5) + 1]]

\* what surrounds the title in the model's answer
TitleEnds == {<<>>, <<"\"">>, <<" ">>, <<"'", "\"">>}

GeneratedTexts == {l \o Chars(n) \o r : l \in TitleEnds, r \in TitleEnds, n \in 0..MaxTitleLen}

InitTitle ==
    /\ FlowOff
    /\ AccOff
    /\ gw = [state |-> "off"]
    /\ reqs = <<>>
    /\ db = <<>>
    /\ \/ \E text \in GeneratedTexts :
            pure = [state |-> "title", user_message |-> Chars(MaxMessageLen),
                    llm |-> [ok |-> TRUE, text |-> text],
                    store_ok |-> TRUE, fallback_ok |-> TRUE]
       \/ \E n \in 0..MaxMessageLen, llm_ok \in BOOLEAN, fallback_ok \in BOOLEAN :
            pure = [state |-> "title", user_message |-> Chars(n),
                    llm |-> [ok |-> llm_ok, text |-> IF llm_ok THEN <<"\"", "a", "\"">> ELSE <<>>],
                    store_ok |-> ~llm_ok, fallback_ok |-> fallback_ok]

\* update_chat_title(session_id, user_message) on a session titled "New Chat"
TitleReturn ==
    /\ pure.state = "title"
    /\ pure' = [pure EXCEPT !.state = "titled"]
                 @@ [result |-> update_chat_title(<<"New Chat">>, pure.user_message, pure.llm,
                                                 pure.store_ok, pure.fallback_ok)]
    /\ UNCHANGED <<flowVars, accVars, gw, reqs, db>>

NextTitle == TitleReturn

SpecTitle == InitTitle /\ [][NextTitle]_vars

-----------------------------------------------------------------------------
(* Two requests on two sessions, interleaved. The generators only give up
   control at their yields; the steps below are finer than that, so every
   interleaving at the yields is among the behaviours. Each request has its
   own locals (reqs[s]); chat_messages and chat_sessions (db) are shared.
   Every text, call id, tool name and gateway payload of a request carries
   the name of its session, so that the origin of a value can be read off
   it. *)

Sessions == {"s1", "s2"}

UserMessageOf(s) == <<"question of ", s>>
CallIdOf == [s1 |-> "call_s1", s2 |-> "call_s2"]
ToolNameOf == [s1 |-> "getTopProducts", s2 |-> "getOrdersOverTime"]
OutcomeOf(s) == [kind |-> "response", status_code |-> 200, is_json |-> TRUE,
                 body |-> [rows |-> s]]

\* what the model streams to the request of session s
TwoDeltas(s) ==
    {[kind |-> "content", content |-> <<"answer to ", s>>],
     ToolDelta(0, CallIdOf[s], "function", ToolNameOf[s], <<>>)}
TwoFinalDeltas(s) ==
    {[kind |-> "none"], [kind |-> "content", content |-> <<"summary for ", s>>]}

\* rows written by earlier requests, in created_at order
AllPriorRows ==
    <<[session_id |-> "s1", role |-> "user", content |-> <<"earlier question of ", "s1">>],
      [session_id |-> "s2", role |-> "user", content |-> <<"earlier question of ", "s2">>],
      [session_id |-> "s1", role |-> "assistant", content |-> <<"earlier answer to ", "s1">>],
      [session_id |-> "s2", role |-> "assistant", content |-> <<"earlier answer to ", "s2">>]>>

\* a variant of the select without .eq("session_id", session_id)
SessionRowsUnfiltered(table, session_id) == table

\* lines 572-579: the rows of the session, in created_at order
SessionRows(table, session_id) ==
    SelectSeq(table, LAMBDA row : row.session_id = session_id)

\* lines 553-566, with the session_id column of the inserted row
TableInsert(table, session_id, role, content) ==
    LET rows == save_message(<<>>, role, content, TRUE) IN
    table \o [i \in 1..Len(rows) |->
                 [session_id |-> session_id, role |-> rows[i].role,
                  content |-> rows[i].content]]

\* the locals of call_openai_streaming and handle_openai_streaming_response
Locals ==
    [pc |-> "load", history |-> <<>>, messages |-> <<>>, accumulated_content |-> <<>>,
     tool_calls |-> <<>>, final_content |-> <<>>, loop_i |-> 0, nchunks |-> 0]

InitTwo ==
    /\ FlowOff
    /\ AccOff
    /\ gw = [state |-> "off"]
    /\ pure = [state |-> "off"]
    /\ reqs = [s \in Sessions |-> Locals]
    /\ \E old \in SUBSET Sessions :
         db = [chat_messages |-> SelectSeq(AllPriorRows, LAMBDA row : row.session_id \in old),
               chat_sessions |-> [s \in Sessions |-> <<"New Chat">>]]

\* lines 193-199
TwoLoadHistory(s) ==
    /\ reqs[s].pc = "load"
    /\ \E ok \in BOOLEAN :
         LET h == get_history(SessionRows(db.chat_messages, s), ok) IN
         /\ reqs' = [reqs EXCEPT ![s].history = h, ![s].messages = RolePairs(h),
                                 ![s].pc = "save_user"]
         /\ db' = IF Len(h) = 0
                  THEN [db EXCEPT !.chat_sessions[s] =
                           update_chat_title(@, UserMessageOf(s),
                                             [ok |-> TRUE, text |-> <<"title of ", s>>],
                                             TRUE, TRUE).stored]
                  ELSE db
    /\ UNCHANGED <<flowVars, accVars, gw, pure>>

\* lines 310-331
TwoSaveUserMessage(s) ==
    /\ reqs[s].pc = "save_user"
    /\ reqs' = [reqs EXCEPT ![s].messages =
                    <<SystemMessage>> \o @
                       \o <<DateMessage, [role |-> "user", content |-> UserMessageOf(s)]>>,
                            ![s].pc = "stream1"]
    /\ db' = [db EXCEPT !.chat_messages = TableInsert(@, s, "user", UserMessageOf(s))]
    /\ UNCHANGED <<flowVars, accVars, gw, pure>>

\* lines 352-388
TwoConsumeDelta(s) ==
    /\ reqs[s].pc = "stream1"
    /\ reqs[s].nchunks < MaxTwoDeltas
    /\ \E d \in TwoDeltas(s) :
         reqs' = IF d.kind = "tool"
                 THEN [reqs EXCEPT ![s].tool_calls = ApplyToolDelta(@, d),
                                   ![s].nchunks = @ + 1]
                 ELSE [reqs EXCEPT ![s].accumulated_content = @ \o d.content,
                                   ![s].nchunks = @ + 1]
    /\ UNCHANGED <<db, flowVars, accVars, gw, pure>>

\* lines 466-472: the stream raises while it is iterated
TwoStreamRaises(s) ==
    /\ reqs[s].pc \in {"stream1", "stream2"}
    /\ db' = [db EXCEPT !.chat_messages =
                  TableInsert(@, s, "assistant",
                              <<"Error handling streaming response: ", "APIConnectionError">>)]
    /\ reqs' = [reqs EXCEPT ![s].pc = "done"]
    /\ UNCHANGED <<flowVars, accVars, gw, pure>>

\* lines 390-399
TwoAnnounceToolCalls(s) ==
    /\ reqs[s].pc = "stream1"
    /\ HasToolCalls(reqs[s].tool_calls)
    /\ reqs' = [reqs EXCEPT ![s].messages =
                    Append(@, [role |-> "assistant",
                               content |-> reqs[s].accumulated_content,
                               tool_calls |-> reqs[s].tool_calls]),
                            ![s].loop_i = 0,
                            ![s].pc = "exec"]
    /\ UNCHANGED <<db, flowVars, accVars, gw, pure>>

\* lines 457-464
TwoFinishNoTools(s) ==
    /\ reqs[s].pc = "stream1"
    /\ ~HasToolCalls(reqs[s].tool_calls)
    /\ LET content == enhance_response_formatting(reqs[s].accumulated_content) IN
       IF reqs[s].accumulated_content # <<>>
       THEN /\ reqs' = [reqs EXCEPT ![s].accumulated_content = content, ![s].pc = "done"]
            /\ db' = [db EXCEPT !.chat_messages = TableInsert(@, s, "assistant", content)]
       ELSE /\ reqs' = [reqs EXCEPT ![s].pc = "done"]
            /\ UNCHANGED db
    /\ UNCHANGED <<flowVars, accVars, gw, pure>>

\* lines 402-426
TwoExecuteToolCall(s) ==
    /\ reqs[s].pc = "exec"
    /\ reqs[s].loop_i < Len(reqs[s].tool_calls)
    /\ LET tool_call == reqs[s].tool_calls[reqs[s].loop_i + 1]
           fn_args == LoadArguments(tool_call.arguments)
           call == call_supabase_edge(tool_call.name, fn_args.value, OutcomeOf(s))
       IN  reqs' = [reqs EXCEPT ![s].messages =
                       IF ~fn_args.ok \/ call.result.raised
                       THEN ToolFailure(@, tool_call, "Exception")
                       ELSE ToolSuccess(@, tool_call, call.result.value),
                               ![s].loop_i = @ + 1]
    /\ UNCHANGED <<db, flowVars, accVars, gw, pure>>

\* lines 428-437
TwoCallModelFinal(s) ==
    /\ reqs[s].pc = "exec"
    /\ reqs[s].loop_i = Len(reqs[s].tool_calls)
    /\ reqs' = [reqs EXCEPT ![s].pc = "stream2", ![s].nchunks = 0]
    /\ UNCHANGED <<db, flowVars, accVars, gw, pure>>

\* lines 440-447
TwoConsumeFinalDelta(s) ==
    /\ reqs[s].pc = "stream2"
    /\ reqs[s].nchunks < MaxTwoFinal
    /\ \E d \in TwoFinalDeltas(s) :
         reqs' = IF d.kind = "content"
                 THEN [reqs EXCEPT ![s].final_content = @ \o d.content,
                                   ![s].nchunks = @ + 1]
                 ELSE [reqs EXCEPT ![s].nchunks = @ + 1]
    /\ UNCHANGED <<db, flowVars, accVars, gw, pure>>

\* lines 449-455
TwoFinishWithTools(s) ==
    /\ reqs[s].pc = "stream2"
    /\ LET content == enhance_response_formatting(reqs[s].final_content) IN
       IF reqs[s].final_content # <<>>
       THEN /\ reqs' = [reqs EXCEPT ![s].final_content = content, ![s].pc = "done"]
            /\ db' = [db EXCEPT !.chat_messages = TableInsert(@, s, "assistant", content)]
       ELSE /\ reqs' = [reqs EXCEPT ![s].pc = "done"]
            /\ UNCHANGED db
    /\ UNCHANGED <<flowVars, accVars, gw, pure>>

NextTwo ==
    \E s \in Sessions :
        \/ TwoLoadHistory(s)
        \/ TwoSaveUserMessage(s)
        \/ TwoConsumeDelta(s)
        \/ TwoStreamRaises(s)
        \/ TwoAnnounceToolCalls(s)
        \/ TwoFinishNoTools(s)
        \/ TwoExecuteToolCall(s)
        \/ TwoCallModelFinal(s)
        \/ TwoConsumeFinalDelta(s)
        \/ TwoFinishWithTools(s)

SpecTwo == InitTwo /\ [][NextTwo]_vars

-----------------------------------------------------------------------------
(* delete_chat_session_optimized alone, called again and again on a store of
   sessions and their messages. The function has no await between its
   remote calls, so one call is one step. Ids are texts (token sequences);
   db holds the two tables, pure the last call with the store it found. *)

Users == {"u1", "u2"}

\* what the remote calls of one run do: all succeed, one of them raises, or
\* the session delete comes back without a deleted row
DeleteFailures == {"none", "select", "delete_messages", "delete_session", "no_data"}

SessionIdInputs == {<<>>, <<" ">>, <<"s1">>, <<" ", "s1">>, <<"s2">>, <<"s9">>}
UserIdInputs == {<<>>, <<"u1">>, <<"u2">>, <<"u1", " ">>}

\* chat_messages rows of one session
MessageRows(sid, n) == {[id |-> k, session_id |-> <<sid>>] : k \in 1..n}

\* the stores a call can find: each session absent or owned by one user, a
\* present session with up to MaxSessionMessages messages
DeleteStores ==
    {[chat_sessions |-> {[id |-> <<sid>>, user_id |-> <<own[sid]>>] :
                            sid \in {x \in Sessions : own[x] # "absent"}},
      chat_messages |-> UNION {IF own[sid] = "absent" THEN {} ELSE MessageRows(sid, cnt[sid]) :
                                 sid \in Sessions}] :
        own \in [Sessions -> Users \cup {"absent"}],
        cnt \in [Sessions -> 0..MaxSessionMessages]}

\* a variant that removes the session row before its messages
delete_chat_session_optimizedSessionFirst(d, session_id_in, user_id_in, fail) ==
    IF Strip(session_id_in) = <<>> \/ Strip(user_id_in) = <<>>
    THEN [raised |-> TRUE, db |-> d]
    ELSE
        LET session_id == Strip(session_id_in)
            user_id == Strip(user_id_in)
            session_check == {r \in d.chat_sessions : r.id = session_id /\ r.user_id = user_id}
            d1 == [d EXCEPT !.chat_sessions = {r \in @ : r.id # session_id}]
            d2 == [d1 EXCEPT !.chat_messages = {m \in @ : m.session_id # session_id}]
        IN  IF fail = "select" THEN [raised |-> TRUE, db |-> d]
            ELSE IF session_check = {} THEN [raised |-> TRUE, db |-> d]
            ELSE IF fail = "delete_session" THEN [raised |-> TRUE, db |-> d]
            ELSE IF fail = "no_data" THEN [raised |-> TRUE, db |-> d]
            ELSE IF fail = "delete_messages" THEN [raised |-> TRUE, db |-> d1]
            ELSE [raised |-> FALSE, db |-> d2]

delete_chat_session_optimized(d, session_id_in, user_id_in, fail) ==
    IF Strip(session_id_in) = <<>> \/ Strip(user_id_in) = <<>>
    THEN [raised |-> TRUE, db |-> d]
    ELSE
        LET session_id == Strip(session_id_in)
            user_id == Strip(user_id_in)
            session_check == {r \in d.chat_sessions : r.id = session_id /\ r.user_id = user_id}
            d1 == [d EXCEPT !.chat_messages = {m \in @ : m.session_id # session_id}]
            d2 == [d1 EXCEPT !.chat_sessions = {r \in @ : r.id # session_id}]
        IN  IF fail = "select" THEN [raised |-> TRUE, db |-> d]
            ELSE IF session_check = {} THEN [raised |-> TRUE, db |-> d]
            ELSE IF fail = "delete_messages" THEN [raised |-> TRUE, db |-> d]
            ELSE IF fail = "delete_session" THEN [raised |-> TRUE, db |-> d1]
            ELSE IF fail = "no_data" THEN [raised |-> TRUE, db |-> d1]
            ELSE [raised |-> FALSE, db |-> d2]

InitDelete ==
    /\ FlowOff
    /\ AccOff
    /\ gw = [state |-> "off"]
    /\ reqs = <<>>
    /\ db \in DeleteStores
    /\ pure = [state |-> "delete"]

DeleteReturn ==
    /\ pure.state \in {"delete", "deleted"}
    /\ \E session_id \in SessionIdInputs, user_id \in UserIdInputs, fail \in DeleteFailures :
         LET result == delete_chat_session_optimized(db, session_id, user_id, fail)
         IN  /\ db' = result.db
             /\ pure' = [state |-> "deleted", session_id |-> session_id, user_id |-> user_id,
                         fail |-> fail, raised |-> result.raised, before |-> db]
    /\ UNCHANGED <<flowVars, accVars, gw, reqs>>

NextDelete == DeleteReturn

SpecDelete == InitDelete /\ [][NextDelete]_vars

-----------------------------------------------------------------------------
(* generate_stream of the chat route, src/app/routes/chat.py lines 993-1017,
   around a core that yields its events in the order call_openai_streaming
   does: first-round content, then possibly tool_calls, tool_execution
   events, final_response and second-round content; an error event is the
   core's last. pure holds the generator: its position, the chunks the core
   has yielded so far (core, numbered as they come), the phase of the core
   and the frames the route has yielded. *)

\* f"data: {json.dumps(x)}\n\n"
Frame(x) == <<"data: ", x, "\n\n">>

Chunk(type, content, n) == [type |-> type, content |-> content, n |-> n]

StartFrame == Frame(Chunk("start", "timestamp", 0))
CompleteFrame == Frame(Chunk("complete", "processing_time_ms", 0))
RouteErrorFrame == Frame(Chunk("error", "Error in streaming chat: ", 0))

\* what the core can yield next in each of its phases, with the phase after
CoreYields(phase) ==
    IF phase = "first"
    THEN {<<"content", "first">>, <<"tool_calls", "tools">>, <<"error", "ended">>}
    ELSE IF phase = "tools"
    THEN {<<"tool_execution", "tools">>, <<"final_response", "final">>, <<"error", "ended">>}
    ELSE IF phase = "final"
    THEN {<<"content", "final">>, <<"error", "ended">>}
    ELSE {}

\* the phases in which the core's generator can be exhausted
CoreCanEnd(phase) == phase \in {"first", "final", "ended"}

InitRoute ==
    /\ FlowOff
    /\ AccOff
    /\ gw = [state |-> "off"]
    /\ reqs = <<>>
    /\ db = <<>>
    /\ pure = [state |-> "route", pc |-> "start", phase |-> "first",
               core |-> <<>>, frames |-> <<>>]

RouteIdle == UNCHANGED <<flowVars, accVars, gw, reqs, db>>

\* lines 996-997: the start frame
RouteStart ==
    /\ pure.state = "route" /\ pure.pc = "start"
    /\ \E next \in AfterYield(TRUE, "relay") :
         pure' = [pure EXCEPT !.frames = Append(@, StartFrame), !.pc = next]
    /\ RouteIdle

\* lines 1000-1004: one chunk of the core, framed and yielded; the generator
\* can be closed at the yield or cancelled at the sleep
RouteRelay ==
    /\ pure.state = "route" /\ pure.pc = "relay"
    /\ Len(pure.core) < MaxCoreEvents
    /\ \E y \in CoreYields(pure.phase), next \in AfterYield(TRUE, "relay") :
         LET chunk == Chunk(y[1], "chunk", Len(pure.core) + 1)
         IN  pure' = [pure EXCEPT !.core = Append(@, chunk), !.phase = y[2],
                                  !.frames = Append(@, Frame(chunk)), !.pc = next]
    /\ RouteIdle

\* lines 1006-1009: the core is exhausted, the complete frame goes out
RouteComplete ==
    /\ pure.state = "route" /\ pure.pc = "relay"
    /\ CoreCanEnd(pure.phase)
    /\ pure' = [pure EXCEPT !.frames = Append(@, CompleteFrame), !.pc = "done"]
    /\ RouteIdle

\* a variant with the complete frame in a finally clause
RouteExceptFinally ==
    /\ pure.state = "route" /\ pure.pc = "relay"
    /\ pure' = [pure EXCEPT !.frames = @ \o <<RouteErrorFrame, CompleteFrame>>, !.pc = "done"]
    /\ RouteIdle

\* lines 1013-1017: an Exception from the core or from json.dumps in the
\* loop; the error frame is the last thing the generator yields
RouteExcept ==
    /\ pure.state = "route" /\ pure.pc = "relay"
    /\ pure' = [pure EXCEPT !.frames = Append(@, RouteErrorFrame), !.pc = "done"]
    /\ RouteIdle

NextRoute ==
    \/ RouteStart
    \/ RouteRelay
    \/ RouteComplete
    \/ RouteExcept

SpecRoute == InitRoute /\ [][NextRoute]_vars

-----------------------------------------------------------------------------
(* The two rolling-window rate limiters: check_rate_limit of
   src/app/routes/auth.py (registrations per client IP) and
   check_session_creation_rate_limit of src/app/routes/chat.py (session
   creations per user). Both are synchronous, so a call is one step. Time is
   counted in ticks of half an hour; datetime.now() does not go backwards
   and can return the same tick twice. pure holds the limiter under test,
   the clock, the dictionary of attempts and the last call. *)

max_attempts_per_hour == 5
max_session_creation_per_hour == 20

\* timedelta(hours=1), in ticks
Hour == 2

\* a variant that records the attempt before looking at the limit
CheckWindowRecordsRejected(list, now, limit) ==
    LET cleaned == SelectSeq(list, LAMBDA attempt_time : attempt_time > now - Hour)
    IN  [allowed |-> Len(cleaned) < limit, list |-> Append(cleaned, now)]

\* the body the two functions share: drop the attempts that are not younger
\* than an hour, refuse at the limit, record the attempt otherwise
CheckWindow(list, now, limit) ==
    LET cleaned == SelectSeq(list, LAMBDA attempt_time : attempt_time > now - Hour)
    IN  IF Len(cleaned) >= limit
        THEN [allowed |-> FALSE, list |-> cleaned]
        ELSE [allowed |-> TRUE, list |-> Append(cleaned, now)]

check_rate_limit(attempts, client_ip, now) ==
    LET r == CheckWindow(attempts[client_ip], now, max_attempts_per_hour)
    IN  [allowed |-> r.allowed, attempts |-> [attempts EXCEPT ![client_ip] = r.list]]

check_session_creation_rate_limit(attempts, user_id, now) ==
    LET r == CheckWindow(attempts[user_id], now, max_session_creation_per_hour)
    IN  [allowed |-> r.allowed, attempts |-> [attempts EXCEPT ![user_id] = r.list]]

Limiters == {"registration", "session_creation"}
RateKeys == {"k1", "k2"}

LimitOf(limiter) ==
    IF limiter = "registration" THEN max_attempts_per_hour ELSE max_session_creation_per_hour

\* the keys that call in a run: both client addresses for the registration
\* limiter; for the session limiter one user, next to a second user who has
\* or has not created a session at tick 0
Callers(limiter) == IF limiter = "registration" THEN RateKeys ELSE {"k1"}

InitRate ==
    /\ FlowOff
    /\ AccOff
    /\ gw = [state |-> "off"]
    /\ reqs = <<>>
    /\ db = <<>>
    /\ \E limiter \in Limiters, other \in {<<>>, <<0>>} :
         /\ limiter = "registration" => other = <<>>
         /\ pure = [state |-> "rate", limiter |-> limiter, now |-> 0,
                    attempts |-> [k \in RateKeys |-> IF k = "k2" THEN other ELSE <<>>],
                    last |-> [key |-> "", allowed |-> FALSE,
                              before |-> [k \in RateKeys |-> <<>>]]]

\* one call of the limiter under test, at the current tick or a later one
RateCheck ==
    /\ pure.state = "rate"
    /\ \E key \in Callers(pure.limiter), now \in pure.now..MaxClock :
         LET r == IF pure.limiter = "registration"
                  THEN check_rate_limit(pure.attempts, key, now)
                  ELSE check_session_creation_rate_limit(pure.attempts, key, now)
         IN  pure' = [pure EXCEPT !.now = now, !.attempts = r.attempts,
                                  !.last = [key |-> key, allowed |-> r.allowed,
                                            before |-> pure.attempts]]
    /\ UNCHANGED <<flowVars, accVars, gw, reqs, db>>

NextRate == RateCheck

SpecRate == InitRate /\ [][NextRate]_vars

-----------------------------------------------------------------------------
(* The session-info endpoint, src/app/routes/chat.py lines 1041-1088, with
   get_session_info of src/app/chat.py lines 111-130. db holds the tables
   (users next to chat_sessions and chat_messages), pure the request and
   then the response. An exception is a record with its class; an
   HTTPException is an Exception and not a ValueError. *)

HTTPException(status_code, detail) ==
    [class |-> "HTTPException", status_code |-> status_code, detail |-> detail]

\* the remote call that raises in a run, if any
InfoFailures == {"none", "users_select", "sessions_select"}

Emails == {"e1", "e2"}
UserOf(email) == IF email = "e1" THEN <<"u1">> ELSE <<"u2">>

\* lines 111-130: the session row, or the exception raised
get_session_info(d, session_id, fail) ==
    IF fail = "sessions_select"
    THEN [raised |-> TRUE, exc |-> [class |-> "Exception", status_code |-> 0,
                                     detail |-> "connection error"]]
    ELSE LET session == {r \in d.chat_sessions : r.id = session_id}
         IN  IF session # {}
             THEN [raised |-> FALSE, value |-> CHOOSE r \in session : TRUE]
             ELSE [raised |-> TRUE, exc |-> [class |-> "ValueError", status_code |-> 0,
                                              detail |-> "Session not found"]]

\* lines 1044-1071: the try block; it returns the body or raises
InfoTry(d, email, session_id, fail) ==
    IF fail = "users_select"
    THEN [raised |-> TRUE, exc |-> [class |-> "Exception", status_code |-> 0,
                                     detail |-> "connection error"]]
    ELSE LET response == {u \in d.users : u.email = email}
         IN  IF response = {}
             THEN [raised |-> TRUE, exc |-> HTTPException(401, "User not found")]
             ELSE LET user_id == (CHOOSE u \in response : TRUE).id
                      session_info == get_session_info(d, session_id, fail)
                  IN  IF session_info.raised THEN session_info
                      ELSE IF session_info.value.user_id # user_id
                      THEN [raised |-> TRUE,
                            exc |-> HTTPException(403, "You can only view your own chat sessions")]
                      ELSE [raised |-> FALSE, value |-> session_info.value]

\* lines 1073-1088: the except clauses, in their order
get_session_info_endpoint(d, email, session_id, fail) ==
    LET t == InfoTry(d, email, session_id, fail)
    IN  IF ~t.raised THEN [status_code |-> 200, detail |-> "ok"]
        ELSE IF t.exc.class = "ValueError"
        THEN IF t.exc.detail = "Session not found"
             THEN [status_code |-> 404, detail |-> "Chat session not found"]
             ELSE [status_code |-> 400, detail |-> t.exc.detail]
        ELSE [status_code |-> 500, detail |-> "Failed to retrieve session info"]

InitInfo ==
    /\ FlowOff
    /\ AccOff
    /\ gw = [state |-> "off"]
    /\ reqs = <<>>
    /\ \E d \in DeleteStores, known \in SUBSET Emails :
         db = [chat_sessions |-> d.chat_sessions, chat_messages |-> d.chat_messages,
               users |-> {[id |-> UserOf(e), email |-> e] : e \in known}]
    /\ \E email \in Emails, sid \in Sessions \cup {"s9"}, fail \in InfoFailures :
         pure = [state |-> "info", email |-> email, session_id |-> <<sid>>, fail |-> fail]

InfoReturn ==
    /\ pure.state = "info"
    /\ pure' = [state |-> "info_done", email |-> pure.email, session_id |-> pure.session_id,
                fail |-> pure.fail,
                response |-> get_session_info_endpoint(db, pure.email, pure.session_id,
                                                       pure.fail)]
    /\ UNCHANGED <<flowVars, accVars, gw, reqs, db>>

NextInfo == InfoReturn

SpecInfo == InitInfo /\ [][NextInfo]_vars

-----------------------------------------------------------------------------
(* The chat route, src/app/routes/chat.py lines 943-1039, up to the point
   where it hands the request to the core, and what the core then does to
   the tables: call_openai_streaming reads the history of req.session_id
   (src/app/chat.py line 193) and the turn appends a user and an assistant
   row under that session id. db holds the tables, pure the request. *)

LongMessage == [i \in 1..4001 |-> "a"]
MessageInputs == {<<>>, <<" ">>, <<" ", "hi">>, LongMessage}

\* lines 959-990: the status the route raises, or 200 when the stream starts
ChatValidate(authenticated_user_id, req) ==
    IF req.user_id # authenticated_user_id THEN 403
    ELSE IF req.message = <<>> \/ Strip(req.message) = <<>> THEN 400
    ELSE IF req.session_id = <<>> \/ Strip(req.session_id) = <<>> THEN 400
    ELSE IF Len(Strip(req.message)) > 4000 THEN 400
    ELSE 200

InitChat ==
    /\ FlowOff
    /\ AccOff
    /\ gw = [state |-> "off"]
    /\ reqs = <<>>
    /\ db \in DeleteStores
    /\ \E u \in Users, user_id \in UserIdInputs, session_id \in SessionIdInputs,
          message \in MessageInputs :
         pure = [state |-> "chat", authenticated_user_id |-> <<u>>,
                 req |-> [user_id |-> user_id, session_id |-> session_id,
                          message |-> message],
                 status_code |-> 0, history |-> {}]

\* the route validates the request and, when it accepts it, the core loads
\* the history of the session named in it
ChatAccept ==
    /\ pure.state = "chat"
    /\ LET status_code == ChatValidate(pure.authenticated_user_id, pure.req)
       IN  pure' = [pure EXCEPT
                      !.state = IF status_code = 200 THEN "accepted" ELSE "rejected",
                      !.status_code = status_code,
                      !.history = IF status_code = 200
                                  THEN {m \in db.chat_messages :
                                          m.session_id = pure.req.session_id}
                                  ELSE {}]
    /\ UNCHANGED <<flowVars, accVars, gw, reqs, db>>

\* the turn appends the user message and the assistant message; an insert
\* under an id without session row is refused by the store and swallowed
ChatTurn ==
    /\ pure.state = "accepted"
    /\ LET sid == pure.req.session_id
           n == Cardinality(db.chat_messages)
       IN  db' = IF \E r \in db.chat_sessions : r.id = sid
                 THEN [db EXCEPT !.chat_messages =
                          @ \cup {[id |-> MaxSessionMessages + n + 1, session_id |-> sid],
                                  [id |-> MaxSessionMessages + n + 2, session_id |-> sid]}]
                 ELSE db
    /\ pure' = [pure EXCEPT !.state = "done"]
    /\ UNCHANGED <<flowVars, accVars, gw, reqs>>

NextChat ==
    \/ ChatAccept
    \/ ChatTurn

SpecChat == InitChat /\ [][NextChat]_vars

-----------------------------------------------------------------------------
(* ChatService.process_chat_message, src/app/chat_service.py lines 92-181.
   The function runs without giving up control until the HTTP call to the
   edge function, and again from the answer to its return: two steps. db
   holds the tables and the clock behind datetime.utcnow(), which gives every
   insert a later timestamp; pure holds the request, the answer of the edge
   function, and what the function did. The settings the service reads are
   not among the sources. *)

\* settings.max_context_messages
max_context_messages == 2

\* a text of n characters, the content of the n-th message of a session
OldContent(n) == [i \in 1..n |-> "x"]

ServiceRoles == <<"user", "assistant">>

\* n messages of session sid, written at the ticks after t0
ServiceRows(sid, n, t0) ==
    {[session_id |-> sid, role |-> ServiceRoles[2 - (k % 2)], content |-> OldContent(k),
      timestamp |-> t0 + k] : k \in 1..n}

\* the tables a request can find: each session absent or owned by one user,
\* with up to MaxServiceHistory messages
ServiceStores ==
    {[chat_sessions |-> {[id |-> sid, user_id |-> own[sid]] :
                            sid \in {x \in Sessions : own[x] # "absent"}},
      chat_messages |->
          (IF own["s1"] = "absent" THEN {} ELSE ServiceRows("s1", cnt["s1"], 0))
          \cup (IF own["s2"] = "absent" THEN {}
                ELSE ServiceRows("s2", cnt["s2"], MaxServiceHistory)),
      clock |-> 2 * MaxServiceHistory] :
        own \in [Sessions -> Users \cup {"absent"}],
        cnt \in [Sessions -> 0..MaxServiceHistory]}

\* what the edge function does with the request
EdgeOutcomes ==
    {[kind |-> "not_configured"], [kind |-> "raises"],
     [kind |-> "response", status_code |-> 200, is_json |-> TRUE, has_response |-> TRUE],
     [kind |-> "response", status_code |-> 200, is_json |-> TRUE, has_response |-> FALSE],
     [kind |-> "response", status_code |-> 200, is_json |-> FALSE, has_response |-> FALSE],
     [kind |-> "response", status_code |-> 500, is_json |-> FALSE, has_response |-> FALSE]}

\* lines 38-57, the lookup by id and owner
get_chat_session(d, session_id, user_id) ==
    {r \in d.chat_sessions : r.id = session_id /\ r.user_id = user_id}

\* lines 15-36
create_chat_session(d, user_id) ==
    [d EXCEPT !.chat_sessions = @ \cup {[id |-> "uuid", user_id |-> user_id]}]

\* lines 70-90
add_message(d, session_id, role, content) ==
    [d EXCEPT !.clock = @ + 1,
              !.chat_messages = @ \cup {[session_id |-> session_id, role |-> role,
                                         content |-> content, timestamp |-> d.clock + 1]}]

\* .order("timestamp", desc=True)
RECURSIVE OrderDesc(_)
OrderDesc(rows) ==
    IF rows = {} THEN <<>>
    ELSE LET newest == CHOOSE r \in rows : \A q \in rows : q.timestamp <= r.timestamp
         IN  <<newest>> \o OrderDesc(rows \ {newest})

Reversed(seq) == [i \in 1..Len(seq) |-> seq[Len(seq) + 1 - i]]

\* a variant without the reversal of the rows read
prepare_conversation_contextNewestFirst(d, session_id) ==
    LET data == Prefix(OrderDesc({m \in d.chat_messages : m.session_id = session_id}),
                       max_context_messages)
    IN  [i \in 1..Len(data) |-> [role |-> data[i].role, content |-> data[i].content]]

\* lines 137-154, the messages of the context
prepare_conversation_context(d, session_id) ==
    LET data == Prefix(OrderDesc({m \in d.chat_messages : m.session_id = session_id}),
                       max_context_messages)
        rev == Reversed(data)
    IN  [i \in 1..Len(rev) |-> [role |-> rev[i].role, content |-> rev[i].content]]

\* lines 156-181: the text returned for each outcome; never raises
call_edge_function(outcome) ==
    IF outcome.kind = "not_configured"
    THEN <<"Error: Edge function URL not configured.">>
    ELSE IF outcome.kind = "raises"
    THEN <<"I apologize, but I encountered an error: ", "timeout">>
    ELSE IF outcome.status_code = 200
    THEN IF ~outcome.is_json
         THEN <<"I apologize, but I encountered an error: ", "JSONDecodeError">>
         ELSE IF outcome.has_response THEN <<"answer">>
         ELSE <<"I apologize, but I couldn't generate a response.">>
    ELSE <<"Error: ", "500", " - ", "body">>

InitService ==
    /\ FlowOff
    /\ AccOff
    /\ gw = [state |-> "off"]
    /\ reqs = <<>>
    /\ db \in ServiceStores
    /\ \E session_id \in Sessions \cup {"s9", ""}, user_id \in Users,
          outcome \in EdgeOutcomes :
         pure = [state |-> "service", session_id |-> session_id, user_id |-> user_id,
                 message |-> <<"hello">>, outcome |-> outcome, before |-> db,
                 session |-> "", context |-> <<>>, response |-> <<>>]

\* lines 96-107 with a session that is not found: ValueError
ServiceRaises ==
    /\ pure.state = "service"
    /\ pure.session_id # ""
    /\ get_chat_session(db, pure.session_id, pure.user_id) = {}
    /\ pure' = [pure EXCEPT !.state = "raised"]
    /\ UNCHANGED <<flowVars, accVars, gw, reqs, db>>

\* lines 96-120: the session is found or created, the user message added,
\* the context read, the edge function called
ServiceBegin ==
    /\ pure.state = "service"
    /\ pure.session_id # "" => get_chat_session(db, pure.session_id, pure.user_id) # {}
    /\ LET d0 == IF pure.session_id # "" THEN db ELSE create_chat_session(db, pure.user_id)
           id == IF pure.session_id # "" THEN pure.session_id ELSE "uuid"
           d1 == add_message(d0, id, "user", pure.message)
       IN  /\ db' = d1
           /\ pure' = [pure EXCEPT !.state = "calling", !.session = id,
                                   !.context = prepare_conversation_context(d1, id)]
    /\ UNCHANGED <<flowVars, accVars, gw, reqs>>

\* lines 120-135: the answer, or the failure text, becomes the assistant
\* message
ServiceEnd ==
    /\ pure.state = "calling"
    /\ LET assistant_response == call_edge_function(pure.outcome)
       IN  /\ db' = add_message(db, pure.session, "assistant", assistant_response)
           /\ pure' = [pure EXCEPT !.state = "served", !.response = assistant_response]
    /\ UNCHANGED <<flowVars, accVars, gw, reqs>>

NextService ==
    \/ ServiceRaises
    \/ ServiceBegin
    \/ ServiceEnd

SpecService == InitService /\ [][NextService]_vars

-----------------------------------------------------------------------------
(* The response cache of src/app/routes/chat.py (lines 17-53) under the
   endpoints that read it (sessions list, chat detail) and the endpoints that
   write session data (create_chat, delete, chat). db holds the tables; pure
   holds the clock behind time.time(), the dictionary _sessions_cache (a
   function from keys to entries) and the last response. A key is the text
   of the f-string, token by token. Every endpoint runs to its end in one
   step: none of them awaits between reading and writing the cache. *)

sessions_cache_ttl == 60

\* f"sessions:{user_id}:{page}:{pagination}"
generate_sessions_cache_key(user_id, page, pagination) ==
    <<"sessions", ":">> \o user_id \o <<":", ToString(page), ":", ToString(pagination)>>

\* f"chat_detail:{user_id}:{session_id}"
DetailCacheKey(user_id, session_id) ==
    <<"chat_detail", ":">> \o user_id \o <<":">> \o session_id

\* `sub in key` on texts
InText(sub, key) ==
    \E i \in 1..(Len(key) - Len(sub) + 1) : SubSeq(key, i, i + Len(sub) - 1) = sub

Without(cache, keys) == [k \in DOMAIN cache \ keys |-> cache[k]]

\* lines 28-36: the data of a live entry; an expired entry is deleted
get_cached_sessions(cache, cache_key, now) ==
    IF cache_key \in DOMAIN cache
    THEN IF now - cache[cache_key].timestamp < sessions_cache_ttl
         THEN [hit |-> TRUE, data |-> cache[cache_key].data, cache |-> cache]
         ELSE [hit |-> FALSE, data |-> <<>>, cache |-> Without(cache, {cache_key})]
    ELSE [hit |-> FALSE, data |-> <<>>, cache |-> cache]

\* lines 38-43
cache_sessions(cache, cache_key, data, now) ==
    (cache_key :> [data |-> data, timestamp |-> now]) @@ cache

\* lines 45-53, with a user id
clear_sessions_cache(cache, user_id) ==
    Without(cache, {key \in DOMAIN cache : InText(<<"sessions", ":">> \o user_id \o <<":">>, key)})

\* src/app/chat.py lines 585-684: the page of the user's sessions; the
\* result has no user_id
get_user_chat_sessions_optimized(d, user_id, page, pagination) ==
    LET owned == {r \in d.chat_sessions : r.user_id = user_id}
        total_sessions == Cardinality(owned)
        total_pages == IF total_sessions > 0
                       THEN (total_sessions + pagination - 1) \div pagination ELSE 0
    IN  [sessions |-> IF page = 1
                      THEN {[id |-> r.id,
                             message_count |-> Cardinality({m \in d.chat_messages :
                                                              m.session_id = r.id})] :
                               r \in owned}
                      ELSE {},
         total_sessions |-> total_sessions, page |-> page, pagination |-> pagination,
         total_pages |-> total_pages, has_next |-> page < total_pages, has_prev |-> page > 1]

\* src/app/chat.py lines 805-881: the detail of a session of the user, or
\* ValueError
get_chat_detail_optimized(d, session_id, user_id) ==
    IF \E r \in d.chat_sessions : r.id = session_id /\ r.user_id = user_id
    THEN LET rows == {m \in d.chat_messages : m.session_id = session_id}
         IN  [raised |-> FALSE,
              value |-> [session_id |-> session_id, user_id |-> user_id,
                         messages |-> rows, total_messages |-> Cardinality(rows)]]
    ELSE [raised |-> TRUE, value |-> <<>>]

\* src/app/models.py lines 95-103: the fields the response model requires
ChatSessionsListFields ==
    {"user_id", "sessions", "total_sessions", "page", "pagination", "total_pages",
     "has_next", "has_prev"}

\* ChatSessionsListResponse(**fields): a missing field is a validation error
ChatSessionsListResponse(fields) ==
    IF ChatSessionsListFields \subseteq DOMAIN fields
    THEN [raised |-> FALSE, value |-> fields]
    ELSE [raised |-> TRUE, value |-> <<>>]

\* lines 77-148 with the default page and page size: status, body, cache
get_chat_sessions(d, cache, user_id, now) ==
    LET cache_key == generate_sessions_cache_key(user_id, 1, 10)
        cached == get_cached_sessions(cache, cache_key, now)
    IN  IF cached.hit
        THEN LET r == ChatSessionsListResponse(cached.data)
             IN  [hit |-> TRUE, cache |-> cached.cache,
                  status_code |-> IF r.raised THEN 500 ELSE 200,
                  body |-> IF r.raised THEN <<>> ELSE r.value]
        ELSE LET result == get_user_chat_sessions_optimized(d, user_id, 1, 10)
             IN  [hit |-> FALSE,
                  cache |-> cache_sessions(cached.cache, cache_key, result, now),
                  status_code |-> 200,
                  body |-> [user_id |-> user_id] @@ result]

\* lines 1090-1160: status, body, cache
get_chat_detail_endpoint(d, cache, session_id, user_id, now) ==
    LET cache_key == DetailCacheKey(user_id, session_id)
        cached == get_cached_sessions(cache, cache_key, now)
    IN  IF cached.hit
        THEN [hit |-> TRUE, cache |-> cached.cache, status_code |-> 200,
              body |-> cached.data]
        ELSE LET chat_detail == get_chat_detail_optimized(d, session_id, user_id)
             IN  IF chat_detail.raised
                 THEN [hit |-> FALSE, cache |-> cached.cache, status_code |-> 404,
                       body |-> <<>>]
                 ELSE [hit |-> FALSE,
                       cache |-> cache_sessions(cached.cache, cache_key, chat_detail.value, now),
                       status_code |-> 200, body |-> chat_detail.value]

\* the user and assistant rows of a chat turn on a session
TurnRows(d, sid) ==
    LET n == Cardinality({m \in d.chat_messages : m.session_id = sid})
    IN  {[id |-> n + 1, session_id |-> sid], [id |-> n + 2, session_id |-> sid]}

\* the sessions the cache is exercised with
CacheSessions == {"s1"}

\* no response of a read endpoint to look at
NoResponse ==
    [op |-> "none", user_id |-> <<>>, session_id |-> <<>>,
     hit |-> FALSE, stale |-> FALSE, status_code |-> 0, body |-> <<>>]

\* the entries that were computed before a later write to their user's
\* session data: those already marked that are still there, and after a
\* write every entry of the writer
StaleAfterRead(stale, cache, cache_key, hit) ==
    (stale \cap DOMAIN cache) \ (IF hit THEN {} ELSE {cache_key})

StaleAfterWrite(stale, cache, user_id) ==
    (stale \cap DOMAIN cache) \cup {k \in DOMAIN cache : <<k[3]>> = user_id}

InitCache ==
    /\ FlowOff
    /\ AccOff
    /\ gw = [state |-> "off"]
    /\ reqs = <<>>
    /\ db \in {d \in DeleteStores :
               /\ d.chat_messages = {}
               /\ \A r \in d.chat_sessions : r.id \in {<<sid>> : sid \in CacheSessions}}
    /\ pure = [state |-> "cache", now |-> 0, cache |-> <<>>, stale |-> {},
               last |-> NoResponse]

\* time passes
CacheClock ==
    /\ pure.state = "cache"
    /\ pure.now + sessions_cache_ttl <= MaxNow
    /\ pure' = [pure EXCEPT !.now = @ + sessions_cache_ttl]
    /\ UNCHANGED <<flowVars, accVars, gw, reqs, db>>

\* GET /sessions
CacheGetSessions ==
    /\ pure.state = "cache"
    /\ \E u \in Users :
         LET r == get_chat_sessions(db, pure.cache, <<u>>, pure.now)
             cache_key == generate_sessions_cache_key(<<u>>, 1, 10)
         IN  pure' = [pure EXCEPT
                        !.cache = r.cache,
                        !.stale = StaleAfterRead(@, r.cache, cache_key, r.hit),
                        !.last = [op |-> "sessions", user_id |-> <<u>>, session_id |-> <<>>,
                                  hit |-> r.hit, stale |-> r.hit /\ cache_key \in pure.stale,
                                  status_code |-> r.status_code, body |-> r.body]]
    /\ UNCHANGED <<flowVars, accVars, gw, reqs, db>>

\* GET /sessions/{session_id}/detail
CacheGetDetail ==
    /\ pure.state = "cache"
    /\ \E u \in Users, sid \in CacheSessions :
         LET r == get_chat_detail_endpoint(db, pure.cache, <<sid>>, <<u>>, pure.now)
             cache_key == DetailCacheKey(<<u>>, <<sid>>)
         IN  pure' = [pure EXCEPT
                        !.cache = r.cache,
                        !.stale = StaleAfterRead(@, r.cache, cache_key, r.hit),
                        !.last = [op |-> "detail", user_id |-> <<u>>, session_id |-> <<sid>>,
                                  hit |-> r.hit, stale |-> r.hit /\ cache_key \in pure.stale,
                                  status_code |-> r.status_code, body |-> r.body]]
    /\ UNCHANGED <<flowVars, accVars, gw, reqs, db>>

\* POST /create_chat, lines 299-367: the session is inserted, the user's
\* sessions entries are cleared
CacheCreateChat ==
    /\ pure.state = "cache"
    /\ \E u \in Users, sid \in CacheSessions :
         /\ \A r \in db.chat_sessions : r.id # <<sid>>
         /\ db' = [db EXCEPT !.chat_sessions = @ \cup {[id |-> <<sid>>, user_id |-> <<u>>]}]
         /\ LET cleared == clear_sessions_cache(pure.cache, <<u>>)
            IN  pure' = [pure EXCEPT !.cache = cleared,
                           !.stale = StaleAfterWrite(@, cleared, <<u>>),
                           !.last = NoResponse]
    /\ UNCHANGED <<flowVars, accVars, gw, reqs>>

\* DELETE /sessions/{session_id}, lines 150-227: the user's sessions entries
\* are cleared when the delete succeeded
CacheDeleteSession ==
    /\ pure.state = "cache"
    /\ \E u \in Users, sid \in CacheSessions :
         LET r == delete_chat_session_optimized(db, <<sid>>, <<u>>, "none")
             cleared == clear_sessions_cache(pure.cache, <<u>>)
         IN  /\ db' = r.db
             /\ pure' = IF r.raised THEN [pure EXCEPT !.last = NoResponse]
                        ELSE [pure EXCEPT !.cache = cleared,
                                          !.stale = StaleAfterWrite(@, cleared, <<u>>),
                                          !.last = NoResponse]
    /\ UNCHANGED <<flowVars, accVars, gw, reqs>>

\* POST /chat, lines 943-1039, by the owner of the session: the turn appends
\* its rows; the route does not touch the cache
CacheChatTurn ==
    /\ pure.state = "cache"
    /\ Cardinality(db.chat_messages) + 2 <= MaxCacheMessages
    /\ \E r \in db.chat_sessions :
         /\ db' = [db EXCEPT !.chat_messages = @ \cup TurnRows(db, r.id)]
         /\ pure' = [pure EXCEPT !.stale = StaleAfterWrite(@, pure.cache, r.user_id),
                                 !.last = NoResponse]
    /\ UNCHANGED <<flowVars, accVars, gw, reqs>>

NextCache ==
    \/ CacheClock
    \/ CacheGetSessions
    \/ CacheGetDetail
    \/ CacheCreateChat
    \/ CacheDeleteSession
    \/ CacheChatTurn

SpecCache == InitCache /\ [][NextCache]_vars

-----------------------------------------------------------------------------
(* The profile endpoints and the two caches in front of the users table *)
(* src/app/routes/auth.py, src/app/auth.py, src/app/database.py *)

\* _cache_ttl, seconds
cache_ttl == 300

\* first and last names
Names == {"n1", "n2"}

\* the remote call that fails in a request, if any
ProfileFailures == {"none", "users_select", "users_update"}

\* the keys a PUT /me body may carry
UpdateKeys == {"first_name", "last_name", "email"}

\* the bodies of PUT /me
UpdateBodies == UNION {[keys -> Names] : keys \in SUBSET UpdateKeys}

\* database.py lines 54-79: the cached user of an email, else the row of the
\* users table, which is then cached; an entry never expires
get_user_by_email_cached(d, user_cache, email, fail) ==
    IF email \in DOMAIN user_cache
    THEN [found |-> TRUE, user |-> user_cache[email], user_cache |-> user_cache]
    ELSE IF fail = "users_select"
    THEN [found |-> FALSE, user |-> <<>>, user_cache |-> user_cache]
    ELSE LET data == {r \in d.users : r.email = email}
         IN  IF data = {}
             THEN [found |-> FALSE, user |-> <<>>, user_cache |-> user_cache]
             ELSE LET user == CHOOSE r \in data : TRUE
                  IN  [found |-> TRUE, user |-> user,
                       user_cache |-> (email :> user) @@ user_cache]

\* database.py lines 81-88
clear_user_cache(user_cache, email) ==
    [e \in DOMAIN user_cache \ {email} |-> user_cache[e]]

\* lines 46-52: the digest of the serialised data
generate_etag(user_data) == [md5 |-> user_data]

\* lines 54-65: the cached profile if still valid; an expired entry is removed
get_cached_user_profile(cache, user_id, now) ==
    IF user_id \in DOMAIN cache
    THEN IF now - cache[user_id].timestamp < cache_ttl
         THEN [hit |-> TRUE, data |-> cache[user_id].data, cache |-> cache]
         ELSE [hit |-> FALSE, data |-> <<>>, cache |-> Without(cache, {user_id})]
    ELSE [hit |-> FALSE, data |-> <<>>, cache |-> cache]

\* lines 67-75
cache_user_profile(cache, user_id, user_data, etag, now) ==
    (user_id :> [data |-> user_data, etag |-> etag, timestamp |-> now]) @@ cache

\* lines 76-83
clear_user_profile_cache(cache, user_id) == Without(cache, {user_id})

\* an If-None-Match header
NoHeader == [present |-> FALSE, etag |-> generate_etag(<<>>)]

\* GET /me, lines 170-238, for the user that get_current_user returned
get_user_profile(cache, current_user, if_none_match, now) ==
    LET user_id == current_user.id
        cached == get_cached_user_profile(cache, user_id, now)
        user_response == [id |-> current_user.id, email |-> current_user.email,
                          first_name |-> current_user.first_name,
                          last_name |-> current_user.last_name]
        etag == generate_etag(user_response)
    IN  IF cached.hit
        THEN IF if_none_match.present /\ if_none_match.etag = cached.data.etag
             THEN [cache |-> cached.cache, hit |-> TRUE, status_code |-> 304, body |-> <<>>]
             ELSE [cache |-> cached.cache, hit |-> TRUE, status_code |-> 200,
                   body |-> cached.data.user_data]
        ELSE [cache |-> cache_user_profile(cached.cache, user_id,
                                           [user_data |-> user_response, etag |-> etag],
                                           etag, now),
              hit |-> FALSE, status_code |-> 200, body |-> user_response]

\* a row of the users table with the fields of an update
UpdatedRow(r, filtered_data) ==
    [r EXCEPT !.first_name = IF "first_name" \in DOMAIN filtered_data
                             THEN filtered_data["first_name"] ELSE @,
              !.last_name = IF "last_name" \in DOMAIN filtered_data
                            THEN filtered_data["last_name"] ELSE @]

\* PUT /me, lines 254-299, for the user that get_current_user returned: the
\* allowed fields are written to the row and the profile cache entry of the
\* user is cleared
update_user_profile(d, cache, current_user, update_data, fail) ==
    LET allowed_fields == {"first_name", "last_name"}
        filtered_data == [k \in DOMAIN update_data \cap allowed_fields |-> update_data[k]]
        rows == {r \in d.users : r.id = current_user.id}
    IN  IF DOMAIN filtered_data = {}
        THEN [status_code |-> 400, db |-> d, cache |-> cache]
        ELSE IF fail = "users_update" \/ rows = {}
        THEN [status_code |-> 500, db |-> d, cache |-> cache]
        ELSE [status_code |-> 200,
              db |-> [d EXCEPT !.users = (@ \ rows) \cup
                                          {UpdatedRow(r, filtered_data) : r \in rows}],
              cache |-> clear_user_profile_cache(cache, current_user.id)]

\* no response of GET /me to look at
NoProfile ==
    [op |-> "none", email |-> "", after_update |-> FALSE, status_code |-> 0, body |-> <<>>]

InitProfile ==
    /\ FlowOff
    /\ AccOff
    /\ gw = [state |-> "off"]
    /\ reqs = <<>>
    /\ db = [users |-> {[id |-> UserOf(e), email |-> e, first_name |-> "n1",
                         last_name |-> "n1"] : e \in Emails}]
    /\ pure = [state |-> "profile", now |-> 0, user_cache |-> <<>>,
               profile_cache |-> <<>>, updated |-> {}, last |-> NoProfile]

\* time passes
ProfileClock ==
    /\ pure.state = "profile"
    /\ pure.now + cache_ttl <= MaxProfileNow
    /\ pure' = [pure EXCEPT !.now = @ + cache_ttl, !.last = NoProfile]
    /\ UNCHANGED <<flowVars, accVars, gw, reqs, db>>

\* the If-None-Match headers a client can send: none, or an ETag it was given
Headers(cache) ==
    {NoHeader} \cup {[present |-> TRUE, etag |-> cache[k].etag] : k \in DOMAIN cache}

\* a GET /me request: get_current_user (src/app/auth.py lines 40-58), then
\* the handler
ProfileGet ==
    /\ pure.state = "profile"
    /\ \E email \in Emails, fail \in ProfileFailures \ {"users_update"},
          if_none_match \in Headers(pure.profile_cache) :
         LET u == get_user_by_email_cached(db, pure.user_cache, email, fail)
             r == get_user_profile(pure.profile_cache, u.user, if_none_match, pure.now)
         IN  IF ~u.found
             THEN pure' = [pure EXCEPT
                             !.last = [op |-> "get", email |-> email,
                                       after_update |-> email \in pure.updated,
                                       status_code |-> 401, body |-> <<>>]]
             ELSE pure' = [pure EXCEPT
                             !.user_cache = u.user_cache,
                             !.profile_cache = r.cache,
                             !.updated = @ \ {email},
                             !.last = [op |-> "get", email |-> email,
                                       after_update |-> email \in pure.updated,
                                       status_code |-> r.status_code, body |-> r.body]]
    /\ UNCHANGED <<flowVars, accVars, gw, reqs, db>>

\* a PUT /me request: get_current_user, then the handler
ProfilePut ==
    /\ pure.state = "profile"
    /\ \E email \in Emails, fail \in ProfileFailures, update_data \in UpdateBodies :
         LET u == get_user_by_email_cached(db, pure.user_cache, email, fail)
             r == update_user_profile(db, pure.profile_cache, u.user, update_data, fail)
         IN  IF ~u.found
             THEN /\ pure' = [pure EXCEPT !.last = NoProfile]
                  /\ db' = db
             ELSE /\ pure' = [pure EXCEPT
                                !.user_cache = u.user_cache,
                                !.profile_cache = r.cache,
                                !.updated = IF r.status_code = 200
                                            THEN @ \cup {email} ELSE @,
                                !.last = NoProfile]
                  /\ db' = r.db
    /\ UNCHANGED <<flowVars, accVars, gw, reqs>>

\* a POST /logout request, lines 244-252: get_current_user, then logout_user
\* (src/app/auth.py lines 78-82) and the profile cache entry are cleared
ProfileLogout ==
    /\ pure.state = "profile"
    /\ \E email \in Emails, fail \in ProfileFailures \ {"users_update"} :
         LET u == get_user_by_email_cached(db, pure.user_cache, email, fail)
         IN  IF ~u.found
             THEN pure' = [pure EXCEPT !.last = NoProfile]
             ELSE pure' = [pure EXCEPT
                             !.user_cache = clear_user_cache(u.user_cache, email),
                             !.profile_cache = clear_user_profile_cache(@, u.user.id),
                             !.last = NoProfile]
    /\ UNCHANGED <<flowVars, accVars, gw, reqs, db>>

NextProfile ==
    \/ ProfileClock
    \/ ProfileGet
    \/ ProfilePut
    \/ ProfileLogout

SpecProfile == InitProfile /\ [][NextProfile]_vars

-----------------------------------------------------------------------------
(* Observations on the state of a request *)

Indices(seq) == 1..Len(seq)

\* rows the request itself added to the session
NewRows(role) == {i \in Indices(store) : store[i].turn = 1 /\ store[i].role = role}

EventsAt(type) == {i \in Indices(events) : events[i].type = type}
ContentEventsAt(round) ==
    {i \in Indices(events) : events[i].type = "content" /\ events[i].round = round}

OpsAt(kind) == {i \in Indices(ops) : ops[i].op = kind}
SavesAt(role) == {i \in OpsAt("save") : ops[i].role = role}
ModelCallsAt(purposes) == {i \in OpsAt("llm") : ops[i].purpose \in purposes}
RaisedAt == {i \in Indices(ops) : ops[i].op \in {"llm", "stream"} /\ ops[i].purpose # "title"
                                   /\ ops[i].raises}

\* every insert the request attempted succeeded
AllSavesOk == \A i \in OpsAt("save") : ops[i].ok

\* the request went down the tool branch (line 391 was true)
TookToolBranch == EventsAt("tool_calls") # {}

\* the text of the content events of a round, concatenated
RECURSIVE ConcatContent(_, _)
ConcatContent(evs, round) ==
    IF evs = <<>> THEN <<>>
    ELSE (IF Head(evs).type = "content" /\ Head(evs).round = round
          THEN Head(evs).content ELSE <<>>) \o ConcatContent(Tail(evs), round)

IsToolMessage(m) == m.role = "tool"
ToolMessages == SelectSeq(messages, IsToolMessage)

ErrorShaped(content) == "error" \in DOMAIN content.json

\* gateway calls made for the tool call at position k of tool_calls
GatewayCallsFor(k) == {i \in OpsAt("gateway") : ops[i].index = k}

\* the for loop over tool_calls ran to its end
ToolLoopDone ==
    \/ pc = "exec" /\ loop_i = Len(tool_calls)
    \/ ModelCallsAt({"final"}) # {}

\* rows the session held before the request
IsPriorRow(row) == row.turn = 0
StoredHistory == SelectSeq(store, IsPriorRow)

-----------------------------------------------------------------------------
(* Claims *)

\* C1: when the request is done, exactly one assistant message was persisted
\* by it, whatever path was taken (stated for runs in which every insert
\* succeeded).
C1_ExactlyOneAssistant ==
    (pc = "done" /\ AllSavesOk) => Cardinality(NewRows("assistant")) = 1

\* C2: in the events of a turn with tool calls, the single tool_calls event
\* precedes every tool_execution event, every tool_execution event precedes
\* the final_response event, and the final_response event precedes every
\* content event of the second round.
C2_EventOrder ==
    /\ pc \in {"exec", "stream2"} => Cardinality(EventsAt("tool_calls")) = 1
    /\ Cardinality(EventsAt("tool_calls")) <= 1
    /\ Cardinality(EventsAt("final_response")) <= 1
    /\ \A i \in EventsAt("tool_execution") : \E k \in EventsAt("tool_calls") : k < i
    /\ \A i \in EventsAt("tool_execution") : \A j \in EventsAt("final_response") : i < j
    /\ \A j \in EventsAt("final_response") : \E k \in EventsAt("tool_calls") : k < j
    /\ \A j \in ContentEventsAt(2) : \E k \in EventsAt("final_response") : k < j

C2_Witness ==
    /\ pc = "done"
    /\ Cardinality(EventsAt("tool_execution")) = 2
    /\ ContentEventsAt(1) # {}
    /\ ContentEventsAt(2) # {}

C4_ToolMessages ==
    /\ pc = "exec" => Len(ToolMessages) = loop_i
    /\ (pc = "stream2" \/ (pc = "done" /\ TookToolBranch)) =>
          /\ Len(ToolMessages) = Len(tool_calls)
          /\ ModelCallsAt({"final"}) # {}
    /\ Len(ToolMessages) <= Len(tool_calls)
    /\ \A k \in Indices(ToolMessages) :
          /\ ToolMessages[k].tool_call_id = tool_calls[k].id
          /\ ~LoadArguments(tool_calls[k].arguments).ok => ErrorShaped(ToolMessages[k].content)
    /\ Cardinality(OpsAt("gateway")) =
          Cardinality({k \in Indices(ToolMessages) : LoadArguments(tool_calls[k].arguments).ok})

C4_Witness ==
    /\ pc = "done"
    /\ Len(tool_calls) = 2
    /\ Len(ToolMessages) = 2
    /\ ~LoadArguments(tool_calls[1].arguments).ok
    /\ OpsAt("gateway") # {}
    /\ \E i \in ModelCallsAt({"final"}) : ~ops[i].raises

\* C5: call_supabase_edge never raises and returns, for a timeout, a record
\* with error and no status code; for a non-200 status, a record with error
\* and the status code; for a 200 body that is not JSON, the raw text with a
\* warning and no error; for a 200 JSON body, the decoded payload unchanged;
\* for any other failure, a record with error.
C5_GatewayResults ==
    gw.state = "returned" =>
        LET r == gw.call.result
            o == gw.outcome
            v == r.value
        IN  /\ ~r.raised
            /\ o.kind = "timeout" =>
                  "error" \in DOMAIN v /\ "status_code" \notin DOMAIN v
            /\ o.kind \in {"connection", "unexpected"} => "error" \in DOMAIN v
            /\ (o.kind = "response" /\ o.status_code # 200) =>
                  /\ "error" \in DOMAIN v
                  /\ "status_code" \in DOMAIN v
                  /\ v.status_code = o.status_code
            /\ (o.kind = "response" /\ o.status_code = 200 /\ ~o.is_json) =>
                  /\ "warning" \in DOMAIN v
                  /\ "error" \notin DOMAIN v
                  /\ v.data = o.body
            /\ (o.kind = "response" /\ o.status_code = 200 /\ o.is_json) => v = o.body

C5_Witness ==
    /\ gw.state = "returned"
    /\ gw.outcome.kind = "response"
    /\ gw.outcome.status_code = 200
    /\ ~gw.outcome.is_json
    /\ "warning" \in DOMAIN gw.call.result.value

\* C6: on the path without tool calls the gateway is never called, the model
\* is invoked exactly once, and the persisted assistant message is the
\* formatter applied to the concatenated first-round content (stated for
\* runs without exception in which every insert succeeded).
C6_NoToolsPersistsFormatted ==
    (pc = "done" /\ ~TookToolBranch /\ RaisedAt = {} /\ AllSavesOk) =>
        /\ OpsAt("gateway") = {}
        /\ Cardinality(ModelCallsAt({"first", "final"})) = 1
        /\ Cardinality(NewRows("assistant")) = 1
        /\ \A i \in NewRows("assistant") :
              store[i].content = enhance_response_formatting(ConcatContent(events, 1))

\* C7: when the second round yields no content, a fallback acknowledgment is
\* persisted: a turn with tool calls never ends without a non-empty assistant
\* message (stated for runs without exception in which every insert
\* succeeded).
C7_FallbackPersisted ==
    (pc = "done" /\ TookToolBranch /\ RaisedAt = {} /\ AllSavesOk) =>
        \E i \in NewRows("assistant") : store[i].content # <<>>

\* C8: the insert of the new user message precedes every model invocation of
\* the request, the title-generation call included.
C8_UserSavedBeforeModel ==
    \A j \in OpsAt("llm") : \E i \in SavesAt("user") : i < j

\* C9: when the insert of the user message fails, the model is not invoked
\* for the orchestration rounds and the failure is surfaced to the caller.
C9_BlockedOnSaveFailure ==
    \A i \in SavesAt("user") :
        ~ops[i].ok =>
            /\ \A j \in ModelCallsAt({"first", "final"}) : j < i
            /\ pc = "done" => EventsAt("error") # {}

\* C10: feeding the deltas of index 1 before those of index 0, with the
\* argument texts split into arbitrary fragments, yields the same list of two
\* calls (id, name and argument text at each index) as feeding index 0 then
\* index 1 with unsplit arguments.
C10_OrderIndependent ==
    accIn.phase = "end" =>
        /\ accAlt = accRef
        /\ Len(accAlt) = 2
        /\ \A i \in 1..2 :
              /\ accAlt[i].id = accIn.calls[i].id
              /\ accAlt[i].name = accIn.calls[i].name
              /\ accAlt[i].arguments = accIn.calls[i].arguments

C10_Witness ==
    /\ accIn.phase = "end"
    /\ accIn.nfrag >= 3
    /\ accAlt[1].arguments # <<>>
    /\ accAlt[2].arguments # <<>>

\* C11: the formatter is idempotent: applied to its own output it returns
\* that output unchanged, for every input text.
C11_Idempotent ==
    pure.state = "twice" => pure.again = pure.content

\* C12: only accumulated tool calls with a non-empty name are executed: a
\* placeholder whose name is empty causes no gateway call and no tool-role
\* message, and a first round in which no call has a name is content-only.
C12_OnlyNamedCallsRun ==
    /\ \A i \in OpsAt("gateway") : ops[i].fn_name # ""
    /\ \A k \in Indices(ToolMessages) : tool_calls[k].name # ""
    /\ (~HasToolCalls(tool_calls) /\ pc \in {"done", "closed"}) =>
          /\ ~TookToolBranch
          /\ OpsAt("gateway") = {}
          /\ ToolMessages = <<>>

\* C13: a tool call with an empty argument text is executed with the empty
\* mapping; for a tool call whose argument text is not valid JSON the gateway
\* is not called and an error-shaped tool message with the call's id is
\* appended; every other call of the round is still executed.
C13_ArgumentDecoding ==
    /\ \A k \in Indices(ToolMessages) :
          LET tc == tool_calls[k] IN
          /\ tc.arguments = <<>> =>
                /\ Cardinality(GatewayCallsFor(k)) = 1
                /\ \A i \in GatewayCallsFor(k) :
                      ops[i].args = {} /\ ops[i].fn_name = tc.name
          /\ (tc.arguments # <<>> /\ ~json_loads(tc.arguments).ok) =>
                /\ GatewayCallsFor(k) = {}
                /\ ErrorShaped(ToolMessages[k].content)
                /\ ToolMessages[k].tool_call_id = tc.id
          /\ (tc.arguments # <<>> /\ json_loads(tc.arguments).ok) =>
                /\ Cardinality(GatewayCallsFor(k)) = 1
                /\ \A i \in GatewayCallsFor(k) :
                      ops[i].args = json_loads(tc.arguments).value
    /\ ToolLoopDone => Len(ToolMessages) = Len(tool_calls)

C13_Witness ==
    /\ pc = "done"
    /\ Len(tool_calls) = 2
    /\ tool_calls[1].arguments = <<"{">>
    /\ tool_calls[2].arguments = <<>>
    /\ GatewayCallsFor(1) = {}
    /\ \E i \in GatewayCallsFor(2) : ops[i].args = {}
    /\ ErrorShaped(ToolMessages[1].content)

\* C14: the number of tool_execution events equals the number of tool calls
\* of the round, one per call handled, the calls with malformed arguments
\* included.
C14_OneExecutionEventPerCall ==
    /\ pc = "exec" => Cardinality(EventsAt("tool_execution")) = loop_i
    /\ ModelCallsAt({"final"}) # {} =>
          Cardinality(EventsAt("tool_execution")) = Len(tool_calls)

\* C15: the loop invokes the model at most twice per request; the second
\* invocation is made exactly when the first round ended with a tool call,
\* after the tool results of all calls were appended, and carries no tool
\* catalog; each tool call is executed at most once.
C15_AtMostTwoRounds ==
    /\ Cardinality(ModelCallsAt({"first"})) <= 1
    /\ Cardinality(ModelCallsAt({"final"})) <= 1
    /\ \A j \in ModelCallsAt({"final"}) :
          /\ ~ops[j].tools
          /\ HasToolCalls(tool_calls)
          /\ TookToolBranch
          /\ Len(ToolMessages) = Len(tool_calls)
          /\ \A i \in OpsAt("gateway") : i < j
          /\ \E i \in ModelCallsAt({"first"}) : i < j /\ ops[i].tools /\ ~ops[i].raises
    /\ (pc \in {"stream2", "done"} /\ TookToolBranch) => ModelCallsAt({"final"}) # {}
    /\ (pc = "done" /\ ~TookToolBranch) => ModelCallsAt({"final"}) = {}
    /\ \A k \in Indices(tool_calls) : Cardinality(GatewayCallsFor(k)) <= 1
    /\ \A i \in OpsAt("gateway") : ops[i].index \in Indices(tool_calls)

C15_Witness ==
    /\ pc = "done"
    /\ Cardinality(OpsAt("gateway")) = 2
    /\ \E j \in ModelCallsAt({"final"}) : ~ops[j].raises
    /\ ContentEventsAt(2) # {}

\* C16: the message list of the first model round is the system message,
\* then the stored history of the session in chronological order as
\* role/content pairs, then the date anchor, then the new user message, which
\* appears exactly once.
C16_FirstRoundMessages ==
    pc = "stream1" =>
        /\ messages = <<SystemMessage>> \o RolePairs(StoredHistory)
                         \o <<DateMessage, [role |-> "user", content |-> UserMessage]>>
        /\ Cardinality({i \in Indices(messages) : messages[i].content = UserMessage}) = 1

\* C17: a request on a session that already holds messages does not generate
\* the title again: the title model is not called and the title is unchanged.
C17_TitleOnlyOnFirstMessage ==
    StoredHistory # <<>> =>
        /\ ModelCallsAt({"title"}) = {}
        /\ title = <<"New Chat">>

\* the text names session s
Mentions(text, s) == \E i \in 1..Len(text) : text[i] = s

\* the message m of a conversation in memory carries nothing of session o
FreeOf(m, o) ==
    IF m.role = "tool"
    THEN /\ m.tool_call_id # CallIdOf[o]
         /\ "rows" \in DOMAIN m.content.json => m.content.json.rows # o
    ELSE /\ ~Mentions(m.content, o)
         /\ "tool_calls" \in DOMAIN m =>
               \A k \in 1..Len(m.tool_calls) :
                  m.tool_calls[k].id # CallIdOf[o] /\ m.tool_calls[k].name # ToolNameOf[o]

\* C18: with two requests on two sessions interleaved, the conversation each
\* request holds in memory contains only the history, tool calls and tool
\* results of its own session, and the rows of each session in the log are
\* the rows it held before followed by rows written by its own request.
C18_SessionsIsolated ==
    \A s \in Sessions : \A o \in Sessions \ {s} :
        /\ \A i \in 1..Len(reqs[s].history) : reqs[s].history[i].session_id = s
        /\ \A i \in 1..Len(reqs[s].messages) : FreeOf(reqs[s].messages[i], o)
        /\ ~Mentions(reqs[s].accumulated_content, o)
        /\ ~Mentions(reqs[s].final_content, o)
        /\ \A k \in 1..Len(reqs[s].tool_calls) :
              reqs[s].tool_calls[k].id # CallIdOf[o]
        /\ \A i \in 1..Len(db.chat_messages) :
              db.chat_messages[i].session_id = s => ~Mentions(db.chat_messages[i].content, o)
        /\ ~Mentions(db.chat_sessions[s], o)
        /\ Cardinality({i \in 1..Len(db.chat_messages) : db.chat_messages[i].session_id = s})
              <= Cardinality({j \in 1..Len(AllPriorRows) : AllPriorRows[j].session_id = s}) + 2
        /\ reqs[s].pc = "load" =>
              \A i \in 1..Len(db.chat_messages) :
                 db.chat_messages[i].session_id = s =>
                    \E j \in 1..Len(AllPriorRows) : AllPriorRows[j] = db.chat_messages[i]

C18_Witness ==
    /\ reqs["s1"].pc = "exec"
    /\ reqs["s1"].loop_i = 1
    /\ reqs["s2"].pc = "stream2"
    /\ reqs["s2"].final_content # <<>>
    /\ reqs["s1"].history # <<>>
    /\ reqs["s2"].history # <<>>
    /\ reqs["s1"].accumulated_content # <<>>

\* C19: when the generator is closed at a yield after the user message was
\* persisted, an assistant message is persisted for the turn all the same.
C19_NoDanglingUserMessage ==
    (pc = "closed" /\ NewRows("user") # {}) => NewRows("assistant") # {}

\* C20: every row written by save_message has a content that is not empty
\* and not only whitespace: an empty or whitespace-only content is replaced
\* by the placeholder before the insert, any other content is written as it
\* is, whatever the role.
C20_NoBlankContent ==
    pure.state = "saved" =>
        LET blank == \A i \in 1..Len(pure.content) : IsWs(pure.content[i]) IN
        /\ Len(pure.rows) = IF pure.ok THEN 1 ELSE 0
        /\ \A i \in 1..Len(pure.rows) :
              LET c == pure.rows[i].content IN
              /\ pure.rows[i].role = pure.role
              /\ c # <<>>
              /\ \E j \in 1..Len(c) : ~IsWs(c[j])
              /\ c = IF blank THEN Placeholder ELSE pure.content

C20_Witness ==
    /\ pure.state = "saved"
    /\ pure.ok
    /\ pure.role = "tool"
    /\ pure.content = <<" ", NL>>
    /\ pure.rows[1].content = Placeholder

\* C21: call_supabase_edge targets the endpoint of the static table for a
\* catalogued name and the name itself otherwise, with the verb of the verb
\* table, POST for a name without entry; with GET the arguments travel only
\* in the query string (none when they are empty), with POST only in the
\* JSON body.
C21_EndpointAndVerb ==
    gw.state = "returned" =>
        LET r == gw.call.request
            f == gw.fn_name
        IN  /\ r.endpoint = IF f \in DOMAIN SUPABASE_FUNCTIONS THEN SUPABASE_FUNCTIONS[f] ELSE f
            /\ r.method = IF f \in DOMAIN HTTP_METHODS THEN HTTP_METHODS[f] ELSE "POST"
            /\ f = "getTopProducts" => r.endpoint = "get-top-products" /\ r.method = "GET"
            /\ f = "getSentimentSummary" =>
                  r.endpoint = "get-reviews-by-sentiment" /\ r.method = "POST"
            /\ r.method \in {"GET", "POST"}
            /\ r.method = "GET" =>
                  /\ ~r.has_body
                  /\ r.has_query <=> gw.args # {}
                  /\ r.has_query => r.query = gw.args
            /\ r.method = "POST" =>
                  /\ ~r.has_query
                  /\ r.has_body
                  /\ r.body = gw.args

C21_Witness ==
    /\ gw.state = "returned"
    /\ gw.fn_name = "getCustomers"
    /\ gw.args = {"p"}
    /\ gw.call.request.method = "GET"
    /\ gw.call.request.has_query
    /\ gw.call.request.endpoint = "get-customers"

\* the deltas consumed that carry index i, in arrival order
DeltasAt(i) == SelectSeq(accIn.seen, LAMBDA d : d.index = i)

RECURSIVE ConcatArguments(_)
ConcatArguments(ds) ==
    IF ds = <<>> THEN <<>> ELSE Head(ds).arguments \o ConcatArguments(Tail(ds))

\* the first non-empty id, and the first non-empty name, of a delta sequence
RECURSIVE FirstId(_)
FirstId(ds) ==
    IF ds = <<>> THEN "" ELSE IF Head(ds).id # "" THEN Head(ds).id ELSE FirstId(Tail(ds))

RECURSIVE FirstName(_)
FirstName(ds) ==
    IF ds = <<>> THEN ""
    ELSE IF Head(ds).name # "" THEN Head(ds).name ELSE FirstName(Tail(ds))

SeenIndices == {accIn.seen[j].index : j \in 1..Len(accIn.seen)} \ {NoIndex}

\* C22: after any sequence of tool-call deltas the accumulated list is dense:
\* it is one longer than the largest index seen, a position that received no
\* delta is an empty placeholder, and the argument text of each call is the
\* concatenation, in arrival order, of the fragments carrying its index.
C22_DenseAccumulation ==
    accIn.phase = "any" =>
        /\ SeenIndices = {} => accRef = <<>>
        /\ SeenIndices # {} =>
              /\ Len(accRef) - 1 \in SeenIndices
              /\ \A i \in SeenIndices : i <= Len(accRef) - 1
        /\ \A k \in 1..Len(accRef) :
              /\ (k - 1) \notin SeenIndices =>
                    accRef[k] = [id |-> "", type |-> "function", name |-> "",
                                 arguments |-> <<>>]
              /\ accRef[k].arguments = ConcatArguments(DeltasAt(k - 1))

C22_Witness ==
    /\ accIn.phase = "any"
    /\ Len(accIn.seen) = 3
    /\ Len(accRef) = 2
    /\ accRef[1].name = ""
    /\ accRef[1].arguments = <<>>
    /\ accRef[2].arguments = <<"x", "y">>
    /\ 0 \notin SeenIndices

\* C23: the id and the name of each accumulated call are the first non-empty
\* id and the first non-empty name received for its index, whatever later
\* deltas for that index carry.
C23_FirstIdAndNameKept ==
    accIn.phase = "any" =>
        \A k \in 1..Len(accRef) :
            /\ accRef[k].id = FirstId(DeltasAt(k - 1))
            /\ accRef[k].name = FirstName(DeltasAt(k - 1))

\* C24: in the first round, the step that consumes a content delta appends
\* exactly one content event with the delta's text to the events yielded so
\* far, and the step that consumes any other chunk appends none: content
\* events are yielded in arrival order, once, before the next chunk is read.
C24_ContentForwardedAtOnce ==
    [][(pc = "stream1" /\ nchunks' = nchunks + 1) =>
          IF accumulated_content' # accumulated_content
          THEN \E f \in Fragments :
                 /\ accumulated_content' = accumulated_content \o f
                 /\ events' = Append(events, [type |-> "content", content |-> f, round |-> 1])
          ELSE events' = events]_vars

C24_Witness ==
    /\ pc = "stream1"
    /\ nchunks = 3
    /\ tool_calls # <<>>
    /\ Len(events) = 2
    /\ events[1] = [type |-> "content", content |-> <<"a">>, round |-> 1]
    /\ events[2] = [type |-> "content", content |-> <<NL, "[debug]", NL>>, round |-> 1]

IsQuote(c) == c \in {"\"", "'"}

\* the text without the quote characters at its two ends
Unquoted(g) ==
    LET inner == {i \in 1..Len(g) : ~IsQuote(g[i])} IN
    IF inner = {} THEN <<>>
    ELSE SubSeq(g, CHOOSE a \in inner : \A i \in inner : a <= i,
                   CHOOSE b \in inner : \A i \in inner : i <= b)

\* C25: update_chat_title never raises; when the model call and the update
\* succeed, the title returned is the title stored, it is the generated text
\* without surrounding whitespace and quote characters when that has at most
\* 50 characters, and otherwise its first 47 characters followed by "...":
\* never more than 50 characters.
C25_TitleAtMostFifty ==
    pure.state = "titled" =>
        /\ ~pure.result.raised
        /\ (pure.llm.ok /\ pure.store_ok /\ Strip(pure.llm.text) # <<>>) =>
              LET q == Unquoted(Strip(pure.llm.text)) IN
              /\ pure.result.stored = pure.result.returned
              /\ Len(pure.result.returned) <= 50
              /\ Len(q) <= 50 => pure.result.returned = q
              /\ Len(q) > 50 =>
                    /\ Len(pure.result.returned) = 50
                    /\ SubSeq(pure.result.returned, 1, 47) = SubSeq(q, 1, 47)
                    /\ SubSeq(pure.result.returned, 48, 50) = <<".", ".", ".">>

C25_Witness ==
    /\ pure.state = "titled"
    /\ pure.llm.ok
    /\ pure.store_ok
    /\ Len(pure.llm.text) = 54
    /\ pure.llm.text[1] = "'"
    /\ Len(pure.result.returned) = 50
    /\ pure.result.returned[50] = "."

\* C26: when the model call or the update of the title fails, the title
\* returned is the user's message itself when it has at most 30 characters
\* and otherwise its first 30 characters followed by "..."; the function
\* returns normally even when the update with the fallback title fails too.
C26_FallbackTitle ==
    (pure.state = "titled" /\ ~(pure.llm.ok /\ pure.store_ok)) =>
        LET m == pure.user_message IN
        /\ ~pure.result.raised
        /\ Len(m) <= 30 => pure.result.returned = m
        /\ Len(m) > 30 =>
              /\ Len(pure.result.returned) = 33
              /\ SubSeq(pure.result.returned, 1, 30) = SubSeq(m, 1, 30)
              /\ SubSeq(pure.result.returned, 31, 33) = <<".", ".", ".">>
        /\ pure.result.stored =
              IF pure.fallback_ok THEN pure.result.returned ELSE <<"New Chat">>

C26_Witness ==
    /\ pure.state = "titled"
    /\ pure.llm.ok
    /\ ~pure.store_ok
    /\ ~pure.fallback_ok
    /\ Len(pure.user_message) = 31
    /\ Len(pure.result.returned) = 33

\* the lines of a text that are not blank
NonBlankLines(t) == SelectSeq(SplitLines(t, <<>>), LAMBDA line : Strip(line) # <<>>)

BlankLineCount(t) ==
    IF t = <<>> THEN 0 ELSE
    Cardinality({i \in 1..Len(SplitLines(t, <<>>)) : Strip(SplitLines(t, <<>>)[i]) = <<>>})

IsDebugOrTrace(line) ==
    \/ StartsWith(Strip(line), <<"[debug]">>)
    \/ StartsWith(Strip(line), <<">", " ", "[debug]">>)
    \/ (\E i \in 1..Len(line) : line[i] = "Talked to")
         /\ (\E i \in 1..Len(line) : line[i] = "supabase.co")

\* C27: for a non-empty input, the output of the formatter has no line that
\* is a debug marker after trimming, no line with both 'Talked to' and
\* 'supabase.co', no three consecutive newlines and no whitespace at either
\* end.
C27_CleanOutput ==
    (pure.state = "once" /\ pure.response # <<>>) =>
        LET out == pure.content
            lines == SplitLines(out, <<>>)
        IN  /\ \A k \in 1..Len(lines) : ~IsDebugOrTrace(lines[k])
            /\ \A i \in 1..(Len(out) - 2) :
                  ~(out[i] = NL /\ out[i + 1] = NL /\ out[i + 2] = NL)
            /\ out # <<>> => ~IsWs(out[1]) /\ ~IsWs(out[Len(out)])

C27_Witness ==
    /\ pure.state = "once"
    /\ \E i \in 1..Len(pure.response) : pure.response[i] = "[debug]"
    /\ \E i \in 1..(Len(pure.response) - 2) :
          pure.response[i] = NL /\ pure.response[i + 1] = NL /\ pure.response[i + 2] = NL
    /\ IsWs(pure.response[1])
    /\ pure.content # <<>>

\* a line around or after which the regex passes put blank lines
IsSpacedLine(line) ==
    \/ StartsWith(line, <<"#", "#">>)
    \/ StartsWith(line, <<":", "arrow_right", ":">>)
    \/ StartsWith(line, <<"-", " ", ":">>)

\* C28 amended: besides dropping debug and gateway-trace lines, collapsing
\* newline runs, trimming the two ends of the text and putting blank lines
\* around header and arrow lines and after emoji bullets, the formatter keeps
\* the text as it is: the non-blank lines of the output are exactly the kept
\* non-blank lines of the input, in order and unchanged (the first without
\* its leading and the last without its trailing whitespace), and a text
\* without header, arrow and emoji-bullet lines gets no new blank line.
C28_LinesKept ==
    pure.state = "once" =>
        LET kept == SelectSeq(NonBlankLines(pure.response), LAMBDA line : ~IsDebugOrTrace(line))
            out == NonBlankLines(pure.content)
            n == Len(kept)
        IN  /\ Len(out) = n
            /\ \A k \in 1..n :
                  out[k] = IF n = 1 THEN Strip(kept[k])
                           ELSE IF k = 1 THEN LStrip(kept[k])
                           ELSE IF k = n THEN RStrip(kept[k])
                           ELSE kept[k]
            /\ (\A k \in 1..n : ~IsSpacedLine(kept[k])) =>
                  BlankLineCount(pure.content) <= BlankLineCount(pure.response)

C28_Witness ==
    /\ pure.state = "once"
    /\ \E i \in 1..Len(pure.response) : pure.response[i] = "[debug]"
    /\ Len(NonBlankLines(pure.content)) = 3
    /\ BlankLineCount(pure.response) = 0
    /\ BlankLineCount(pure.content) = 2

\* C28 as stated: besides dropping debug and gateway-trace lines, collapsing
\* newline runs and trimming the ends, the formatter keeps the text as it is:
\* the non-blank lines of the output are the kept non-blank lines of the
\* input, in order, and the output has no blank line the input did not have.
C28_NothingInserted ==
    pure.state = "once" =>
        LET kept == SelectSeq(NonBlankLines(pure.response), LAMBDA line : ~IsDebugOrTrace(line))
            out == NonBlankLines(pure.content)
        IN  /\ Len(out) = Len(kept)
            /\ \A k \in 1..Len(out) : Strip(out[k]) = Strip(kept[k])
            /\ BlankLineCount(pure.content) <= BlankLineCount(pure.response)

\* C29: a successful delete leaves neither the session nor a message of it;
\* a call by someone who does not own the session, or for a session that
\* does not exist, raises and leaves both tables as they were; and no
\* message is ever left in the store without its session.
C29_DeleteCascades ==
    /\ \A m \in db.chat_messages : \E r \in db.chat_sessions : r.id = m.session_id
    /\ pure.state = "deleted" =>
          LET sid == Strip(pure.session_id)
              uid == Strip(pure.user_id)
              owned == \E r \in pure.before.chat_sessions : r.id = sid /\ r.user_id = uid
          IN  /\ ~pure.raised =>
                    /\ \A r \in db.chat_sessions : r.id # sid
                    /\ \A m \in db.chat_messages : m.session_id # sid
              /\ ~owned => pure.raised /\ db = pure.before

C29_Witness ==
    /\ pure.state = "deleted"
    /\ ~pure.raised
    /\ \E m \in pure.before.chat_messages : m.session_id = Strip(pure.session_id)
    /\ \E m \in db.chat_messages : m.session_id # Strip(pure.session_id)
    /\ Cardinality(db.chat_sessions) = 1
\* the frames of the route that end a stream
IsTerminalFrame(f) == f \in {CompleteFrame, RouteErrorFrame}

\* C30: the stream of the chat route begins with the one start frame, then
\* carries the core's events in the order the core yielded them, and, once
\* the generator has run to its end, closes with exactly one terminal frame,
\* which is the last frame: no content event comes after complete.
C30_StreamFraming ==
    pure.state = "route" =>
        LET frames == pure.frames
            n == Len(frames)
            k == Len(pure.core)
        IN  /\ pure.pc # "start" => n >= 1 /\ frames[1] = StartFrame
            /\ \A i \in 2..n : frames[i] # StartFrame
            /\ n >= k + 1 => \A i \in 1..k : frames[i + 1] = Frame(pure.core[i])
            /\ \A i \in 1..n : IsTerminalFrame(frames[i]) => i = n /\ i = k + 2
            /\ pure.pc = "done" => n = k + 2 /\ IsTerminalFrame(frames[n])
            /\ pure.pc # "start" => n >= k + 1

C30_Witness ==
    /\ pure.state = "route"
    /\ pure.pc = "done"
    /\ Len(pure.core) = 4
    /\ pure.core[1].type = "tool_calls"
    /\ pure.core[4].type = "content"
    /\ pure.frames[6] = CompleteFrame

\* C40: for a non-empty user message the title update_chat_title returns and
\* the title it leaves in the session row are never empty, whatever the
\* model answered.
C40_TitleNeverEmpty ==
    (pure.state = "titled" /\ pure.user_message # <<>>) =>
        /\ pure.result.returned # <<>>
        /\ pure.result.stored # <<>>

\* C34: when a turn is done without an exception and its assistant message
\* was saved, the text that was formatted and saved is the concatenation of
\* all content events of the turn, those of the first round included.
C34_DeliveredIsPersisted ==
    (pc = "done" /\ RaisedAt = {} /\ SavesAt("assistant") # {}) =>
        (IF TookToolBranch THEN final_content ELSE accumulated_content) =
            enhance_response_formatting(ConcatContent(events, 1) \o ConcatContent(events, 2))

\* C39: the endpoint table and the verb table have the same keys, and a
\* gateway call for a tool of the catalog finds the tool's name in both
\* tables: it never falls back to the name itself and the default verb.
C39_TablesCoverCatalog ==
    /\ DOMAIN SUPABASE_FUNCTIONS = DOMAIN HTTP_METHODS
    /\ (gw.state = "returned" /\ gw.fn_name \in ToolNames) =>
          /\ gw.fn_name \in DOMAIN SUPABASE_FUNCTIONS
          /\ gw.fn_name \in DOMAIN HTTP_METHODS
          /\ gw.call.request.endpoint # gw.fn_name

\* the attempts of a list that lie within the hour before now
InWindow(list, now) == SelectSeq(list, LAMBDA t : t > now - Hour)

\* C37: each limiter holds per key at most its limit of attempts; a call is
\* accepted exactly when fewer than the limit recorded attempts of its key
\* lie within the preceding hour; an accepted call adds its time to the
\* key's attempts of that hour, a rejected call adds nothing; and the
\* attempts of the other keys are left as they were.
C37_RollingWindow ==
    pure.state = "rate" =>
        LET limit == LimitOf(pure.limiter)
            key == pure.last.key
            before == pure.last.before
        IN  /\ \A k \in RateKeys : Len(pure.attempts[k]) <= limit
            /\ key # "" =>
                  /\ pure.last.allowed <=> Len(InWindow(before[key], pure.now)) < limit
                  /\ pure.last.allowed =>
                        pure.attempts[key] = Append(InWindow(before[key], pure.now), pure.now)
                  /\ ~pure.last.allowed =>
                        pure.attempts[key] = InWindow(before[key], pure.now)
                  /\ \A k \in RateKeys \ {key} : pure.attempts[k] = before[k]

C37_Witness ==
    /\ pure.state = "rate"
    /\ pure.limiter = "session_creation"
    /\ pure.last.key = "k1"
    /\ ~pure.last.allowed
    /\ Len(pure.last.before["k1"]) = 20
    /\ pure.attempts["k2"] = <<0>>
    /\ pure.now = 1

\* C38: the session-info endpoint answers a request of a user who is not in
\* the users table with 401, a request for a session that does not exist
\* with 404 and a request for a session of another user with 403; none of
\* the three is answered with 500 (stated for runs in which no remote call
\* fails).
C38_AccessStatus ==
    (pure.state = "info_done" /\ pure.fail = "none") =>
        LET known == \E u \in db.users : u.email = pure.email
            rows == {r \in db.chat_sessions : r.id = pure.session_id}
            status_code == pure.response.status_code
        IN  /\ ~known => status_code = 401
            /\ (known /\ rows = {}) => status_code = 404
            /\ (known /\ rows # {} /\ \A r \in rows : r.user_id # UserOf(pure.email)) =>
                  status_code = 403
            /\ (~known \/ rows = {} \/ \A r \in rows : r.user_id # UserOf(pure.email)) =>
                  status_code # 500

\* C33: a request the chat route accepts names a session of the
\* authenticated user: the history the core reads and the rows the turn
\* appends belong to a session owned by the caller.
C33_OwnSessionOnly ==
    pure.state \in {"accepted", "done"} =>
        /\ \A m \in pure.history :
              \E r \in db.chat_sessions :
                 r.id = m.session_id /\ r.user_id = pure.authenticated_user_id
        /\ \A r \in db.chat_sessions :
              r.id = pure.req.session_id => r.user_id = pure.authenticated_user_id

\* the rows the request added to chat_messages
ServiceNewRows == db.chat_messages \ pure.before.chat_messages

C31_NoStaleEntryServed ==
    (pure.state = "cache" /\ pure.last.hit /\ pure.last.status_code = 200) =>
        ~pure.last.stale

\* C35: a sessions-list request answered from the cache is answered
\* successfully, with the content of the response that filled the entry: the
\* cached page together with the user's id.
C35_CacheHitSameContent ==
    (pure.state = "cache" /\ pure.last.op = "sessions" /\ pure.last.hit) =>
        LET cache_key == generate_sessions_cache_key(pure.last.user_id, 1, 10)
        IN  /\ pure.last.status_code = 200
            /\ cache_key \in DOMAIN pure.cache
            /\ pure.last.body = [user_id |-> pure.last.user_id] @@ pure.cache[cache_key].data

\* C36: the profile read that follows a successful profile update of the same
\* user returns the first and last name that the users table now holds, not
\* the values from before the update.
C36_ReadAfterUpdate ==
    (pure.state = "profile" /\ pure.last.op = "get" /\ pure.last.after_update
        /\ pure.last.status_code = 200) =>
        \A r \in db.users :
            r.email = pure.last.email =>
                /\ pure.last.body.first_name = r.first_name
                /\ pure.last.body.last_name = r.last_name
====
